---- MODULE Spec2Model ----
(***************************************************************************)
(* Metadata build of the NSDUH pipeline: py/02_build_metadata.             *)
(*                                                                         *)
(* Text is modelled as a sequence of one-character strings, so that the    *)
(* regular expressions, the string concatenations and the string order of  *)
(* the Python code are computed and not assumed.                           *)
(***************************************************************************)
EXTENDS Integers, Sequences, FiniteSets, TLC

VARIABLES
    pc,        \* position in build_variable_metadata / compute_semantic_bridges
    base,      \* rows returned by extract_all_stata_metadata
    ddi,       \* mapping returned by extract_all_ddi_metadata
    conc,      \* rows returned by load_concordance_files
    df,        \* the working table (df_stata, then df inside compute_semantic_bridges)
    columns,   \* the columns df has
    input,     \* the table as handed to compute_semantic_bridges
    csv,       \* metadata/variable_metadata.csv: whether written, and its rows
    raw,       \* a raw label handed to clean_label
    once,      \* clean_label(raw)
    twice,     \* clean_label(clean_label(raw))
    call,      \* a call of extract_semantic_features: its arguments and its result
    run,       \* run.py: the steps started, their results, the exit status
    load,      \* the two extraction loops: their inputs, positions and results
    download   \* download_nsduh_data.py: the directories, the server, the last call

vars == <<pc, base, ddi, conc, df, columns, input, csv, raw, once, twice, call, run, load, download>>

(***************************************************************************)
(* String constants                                                        *)
(***************************************************************************)

\* The literal words of the patterns of semantic_matcher.py, and " - EVER USED".
W ==
    [RC |-> <<"R", "C", "-">>,
     ADULT |-> <<"A", "D", "U", "L", "T", ":">>,
     YOUTH |-> <<"Y", "O", "U", "T", "H", ":">>,
     EVER |-> <<"E", "V", "E", "R">>,
     USED |-> <<"U", "S", "E", "D">>,
     LIFETIME |-> <<"L", "I", "F", "E", "T", "I", "M", "E">>,
     PAST |-> <<"P", "A", "S", "T">>,
     NARROW |-> <<"_", "n", "a", "r", "r", "o", "w", "_">>,
     COCAINE |-> <<"C", "O", "C", "A", "I", "N", "E">>,
     EVER_USED |-> <<"E", "V", "E", "R", " ", "U", "S", "E", "D">>,
     SUFFIX |-> <<" ", "-", " ", "E", "V", "E", "R", " ", "U", "S", "E", "D">>]

\* Variable names: of the tables, of the test at the end of
\* semantic_matcher.py (COCFLAG), as a Stata file spells one (mrjflag), no
\* drug word (ID), a cocaine abbreviation (CRK), with the separator of the
\* narrow key ("A|B").
N ==
    [MRJFLAG |-> <<"M", "R", "J", "F", "L", "A", "G">>,
     MARJFLAG |-> <<"M", "A", "R", "J", "F", "L", "A", "G">>,
     COCFLAG |-> <<"C", "O", "C", "F", "L", "A", "G">>,
     CRK |-> <<"C", "R", "K">>,
     ID |-> <<"I", "D">>,
     mrjflag |-> <<"m", "r", "j", "f", "l", "a", "g">>,
     A_B |-> <<"A", "|", "B">>,
     A |-> <<"A">>]

\* Variable labels: "MARIJUANA - EVER USED", "RC-MARIJUANA - EVER USED",
\* "COCAINE USE", the label of the test at the end of semantic_matcher.py,
\* labels of the scenarios of extract_semantic_features, labels that hold the
\* separator of the narrow key, and labels with EVER USED before their end.
L ==
    [EVER |-> <<"M", "A", "R", "I", "J", "U", "A", "N", "A", " ", "-", " ", "E", "V", "E", "R", " ",
                "U", "S", "E", "D">>,
     RC |-> <<"R", "C", "-", "M", "A", "R", "I", "J", "U", "A", "N", "A", " ", "-", " ", "E", "V",
              "E", "R", " ", "U", "S", "E", "D">>,
     COC |-> <<"C", "O", "C", "A", "I", "N", "E", " ", "U", "S", "E">>,
     COC_EVER |-> <<"C", "O", "C", "A", "I", "N", "E", " ", "-", " ", "E", "V", "E", "R", " ", "U", "S",
                    "E", "D">>,
     AGE_FLAG |-> <<"A", "G", "E", " ", "F", "I", "R", "S", "T", " ", "U", "S", "E", " ", "F", "L", "A",
                    "G">>,
     RESPONDENT |-> <<"R", "E", "S", "P", "O", "N", "D", "E", "N", "T", " ", "I", "D">>,
     THREE |-> <<"C", "O", "C", "A", "I", "N", "E", " ", "C", "R", "A", "C", "K", " ", "H", "E", "R",
                 "O", "I", "N">>,
     ALL_TIMES |-> <<"E", "V", "E", "R", " ", "U", "S", "E", "D", " ", "P", "A", "S", "T", " ", "3", "0",
                     " ", "D", "A", "Y", "S", " ", "P", "A", "S", "T", " ", "Y", "E", "A", "R">>,
     C |-> <<"C">>,
     B_C |-> <<"B", "|", "C">>,
     EVER_USED_COC |-> <<"E", "V", "E", "R", " ", "U", "S", "E", "D", " ", "C", "O", "C", "A", "I", "N", "E">>,
     COC_IN_LIFETIME |-> <<"C", "O", "C", "A", "I", "N", "E", " ", "E", "V", "E", "R", " ", "U", "S", "E", "D",
                           " ", "I", "N", " ", "L", "I", "F", "E", "T", "I", "M", "E">>]

\* Confirmed ids of the bridge tables and confirmed groups of the test at
\* the end of semantic_matcher.py.
G ==
    [G1 |-> <<"G", "1">>,
     G2 |-> <<"G", "2">>,
     MRJ_01 |-> <<"M", "R", "J", "_", "0", "1">>,
     COC_01 |-> <<"C", "O", "C", "_", "0", "1">>]

\* Literals of concordance_metadata.py and column labels of the sheets.
C ==
    [VARIABLE |-> <<"V", "A", "R", "I", "A", "B", "L", "E">>,
     PUF |-> <<"P", "U", "F">>,
     Variable |-> <<"V", "a", "r", "i", "a", "b", "l", "e", " ">>,
     y2002 |-> <<"2", "0", "0", "2">>,
     puf03 |-> <<"p", "u", "f", "0", "3">>,
     PUF_02 |-> <<"P", "U", "F", " ", "0", "2">>,
     PUF_45 |-> <<"P", "U", "F", " ", "4", "5">>,
     y1978 |-> <<"1", "9", "7", "8">>,
     Notes |-> <<"N", "o", "t", "e", "s">>,
     Name |-> <<"N", "a", "m", "e">>]

\* Cells of the sheets.
X ==
    [mrjflag |-> <<" ", "m", "r", "j", "f", "l", "a", "g">>,
     one |-> <<"1">>,
     two |-> <<"2">>,
     blank |-> <<" ">>]

\* The pieces of the file names and of the glob patterns of
\* download_nsduh_data.py.
D ==
    [NHSDA |-> <<"N", "H", "S", "D", "A">>,
     NSDUH |-> <<"N", "S", "D", "U", "H">>,
     DS0001 |-> <<"-", "D", "S", "0", "0", "0", "1", "-">>,
     ds0001 |-> <<"-", "d", "s", "0", "0", "0", "1", "-">>,
     stata_v4 |-> <<"b", "n", "d", "l", "-", "d", "a", "t", "a", "-", "s", "t", "a", "t", "a", "_", "v",
                    "4", ".", "z", "i", "p">>,
     stata_v2 |-> <<"b", "n", "d", "l", "-", "d", "a", "t", "a", "-", "s", "t", "a", "t", "a", "_", "v",
                    "2", ".", "z", "i", "p">>,
     stata_v1 |-> <<"b", "n", "d", "l", "-", "d", "a", "t", "a", "-", "s", "t", "a", "t", "a", "_", "v",
                    "1", ".", "z", "i", "p">>,
     stata |-> <<"b", "n", "d", "l", "-", "d", "a", "t", "a", "-", "s", "t", "a", "t", "a", ".", "z",
                 "i", "p">>,
     ASCII_v4 |-> <<"b", "n", "d", "l", "-", "d", "a", "t", "a", "-", "A", "S", "C", "I", "I", "-", "s",
                    "e", "t", "u", "p", "-", "t", "o", "-", "s", "t", "a", "t", "a", "_", "v", "4", ".",
                    "z", "i", "p">>,
     ascii_v4 |-> <<"b", "n", "d", "l", "-", "d", "a", "t", "a", "-", "a", "s", "c", "i", "i", "-", "s",
                    "e", "t", "u", "p", "-", "t", "o", "-", "s", "t", "a", "t", "a", "_", "v", "4", ".",
                    "z", "i", "p">>,
     ascii_v2 |-> <<"b", "n", "d", "l", "-", "d", "a", "t", "a", "-", "a", "s", "c", "i", "i", "-", "s",
                    "e", "t", "u", "p", "-", "t", "o", "-", "s", "t", "a", "t", "a", "_", "v", "2", ".",
                    "z", "i", "p">>,
     ascii_v1 |-> <<"b", "n", "d", "l", "-", "d", "a", "t", "a", "-", "a", "s", "c", "i", "i", "-", "s",
                    "e", "t", "u", "p", "-", "t", "o", "-", "s", "t", "a", "t", "a", "_", "v", "1", ".",
                    "z", "i", "p">>,
     ascii |-> <<"b", "n", "d", "l", "-", "d", "a", "t", "a", "-", "a", "s", "c", "i", "i", "-", "s",
                 "e", "t", "u", "p", "-", "t", "o", "-", "s", "t", "a", "t", "a", ".", "z", "i", "p">>,
     setup_v2 |-> <<"s", "e", "t", "u", "p", "_", "v", "2", ".", "z", "i", "p">>,
     setup_v1 |-> <<"s", "e", "t", "u", "p", "_", "v", "1", ".", "z", "i", "p">>,
     stata_zip |-> <<"s", "t", "a", "t", "a", ".", "z", "i", "p">>,
     setup |-> <<"s", "e", "t", "u", "p">>,
     zip |-> <<".", "z", "i", "p">>]

(***************************************************************************)
(* Characters and strings                                                  *)
(***************************************************************************)

\* The printable ASCII characters 32..126 in code-point order (three that the
\* inputs never hold are written by name).
Ascii ==
    << " ", "!", "dquote", "#", "$", "%", "&", "'", "(", ")", "*", "+", ",", "-", ".", "/",
       "0", "1", "2", "3", "4", "5", "6", "7", "8", "9", ":", ";", "<", "=", ">", "?",
       "@", "A", "B", "C", "D", "E", "F", "G", "H", "I", "J", "K", "L", "M", "N", "O",
       "P", "Q", "R", "S", "T", "U", "V", "W", "X", "Y", "Z", "[", "backslash", "]", "^", "_",
       "backtick", "a", "b", "c", "d", "e", "f", "g", "h", "i", "j", "k", "l", "m", "n", "o",
       "p", "q", "r", "s", "t", "u", "v", "w", "x", "y", "z", "{", "|", "}", "~" >>

\* Code point of a character (Python's ord).
Ord(c) == 31 + (CHOOSE i \in DOMAIN Ascii : Ascii[i] = c)

IsLower(c) == Ord(c) >= 97 /\ Ord(c) <= 122
IsUpper(c) == Ord(c) >= 65 /\ Ord(c) <= 90
IsDigit(c) == Ord(c) >= 48 /\ Ord(c) <= 57

\* str.upper()
UpperStr(s) == [i \in DOMAIN s |-> IF IsLower(s[i]) THEN Ascii[Ord(s[i]) - 32 - 31] ELSE s[i]]

\* \s of the regular expressions and the whitespace of str.strip(); the
\* inputs of the model hold no other whitespace than the space.
IsSpace(c) == c = " "

\* \w of the regular expressions.
IsWordChar(c) == IsLower(c) \/ IsUpper(c) \/ IsDigit(c) \/ c = "_"

\* First position j >= i of s that holds no whitespace (Len(s)+1 if none): \s*
RECURSIVE SkipWs(_, _)
SkipWs(s, i) ==
    IF i <= Len(s) /\ IsSpace(s[i]) THEN SkipWs(s, i + 1) ELSE i

\* Last position j <= i of s that holds no whitespace (0 if none).
RECURSIVE SkipWsBack(_, _)
SkipWsBack(s, i) ==
    IF i >= 1 /\ IsSpace(s[i]) THEN SkipWsBack(s, i - 1) ELSE i

\* str.strip()
Strip(s) ==
    LET a == SkipWs(s, 1)
        b == SkipWsBack(s, Len(s))
    IN  IF a > b THEN <<>> ELSE SubSeq(s, a, b)

\* s holds the literal w at position i.
HasAt(s, i, w) ==
    /\ i >= 1
    /\ i + Len(w) - 1 <= Len(s)
    /\ SubSeq(s, i, i + Len(w) - 1) = w

\* Python's  w in s
Contains(s, w) == \E i \in 1..(Len(s) + 1) : HasAt(s, i, w)

\* \b before position i, where a word character stands at i.
BoundaryBefore(s, i) == i = 1 \/ ~IsWordChar(s[i - 1])

\* \b before position i, where a word character stands at i - 1.
BoundaryAfter(s, i) == i > Len(s) \/ ~IsWordChar(s[i])

\* re.search(r'\b(w1|w2|...)\b', s) for literal words of word characters.
SearchWord(s, words) ==
    \E w \in words : \E i \in 1..Len(s) :
        HasAt(s, i, w) /\ BoundaryBefore(s, i) /\ BoundaryAfter(s, i + Len(w))

\* Python's str order: s < t, by code points, a proper prefix first.
RECURSIVE StrLess(_, _)
StrLess(s, t) ==
    IF t = <<>> THEN FALSE
    ELSE IF s = <<>> THEN TRUE
    ELSE IF s[1] = t[1] THEN StrLess(Tail(s), Tail(t))
    ELSE Ord(s[1]) < Ord(t[1])

\* str(int) for n >= 0.
RECURSIVE IntToStr(_)
IntToStr(n) ==
    IF n < 10 THEN <<Ascii[n + 17]>>
    ELSE IntToStr(n \div 10) \o <<Ascii[(n % 10) + 17]>>

\* A missing value of a pandas column (NaN / None); no string equals it.
NaN == <<"NaN">>

\* str(x) of a cell: a missing value prints as "nan".
StrOf(x) == IF x = NaN THEN <<"n", "a", "n">> ELSE x

(***************************************************************************)
(* Label Normalizer: semantic_matcher.clean_label                          *)
(***************************************************************************)

\* re.sub(r'^RC-\s*', '', s)
StripRC(s) ==
    IF HasAt(s, 1, W.RC) THEN SubSeq(s, SkipWs(s, 4), Len(s)) ELSE s

\* re.sub(r'^(ADULT|YOUTH):\s*', '', s)
StripAgePrefix(s) ==
    IF HasAt(s, 1, W.ADULT) \/ HasAt(s, 1, W.YOUTH)
    THEN SubSeq(s, SkipWs(s, 7), Len(s))
    ELSE s

\* EVER\s*USED matched at position j: the position after the match, else 0.
EverUsedFrom(s, j) ==
    IF HasAt(s, j, W.EVER)
    THEN LET k == SkipWs(s, j + 4)
         IN  IF HasAt(s, k, W.USED) THEN k + 4 ELSE 0
    ELSE 0

\* \s*-?\s*EVER\s*USED matched at position i: the position after the match,
\* else 0.  Whitespace is neither "-" nor "E", so the greedy \s* decide it.
EverUsedAt(s, i) ==
    LET j == SkipWs(s, i)
        dashed == IF j <= Len(s) /\ s[j] = "-"
                  THEN EverUsedFrom(s, SkipWs(s, j + 1))
                  ELSE 0
    IN  IF dashed # 0 THEN dashed ELSE EverUsedFrom(s, j)

\* re.sub(r'\s*-?\s*EVER\s*USED', '', s): every leftmost non-overlapping
\* match is removed, wherever it stands.
RECURSIVE RemoveEverUsed(_, _)
RemoveEverUsed(s, i) ==
    IF i > Len(s) THEN <<>>
    ELSE LET e == EverUsedAt(s, i)
         IN  IF e # 0 THEN RemoveEverUsed(s, e)
             ELSE <<s[i]>> \o RemoveEverUsed(s, i + 1)

clean_label(label) ==
    IF label = NaN THEN <<>>
    ELSE LET upper == Strip(UpperStr(label))
             noRC == StripRC(upper)
             noAge == StripAgePrefix(noRC)
             noEver == IF Contains(noAge, W.LIFETIME) \/ Contains(noAge, W.EVER)
                       THEN RemoveEverUsed(noAge, 1)
                       ELSE noAge
         IN  Strip(noEver)

(***************************************************************************)
(* Feature Extractor: semantic_matcher.extract_semantic_features           *)
(***************************************************************************)

\* substance_patterns, in list order: <<label, the words of the pattern>>.
substance_patterns ==
    << <<"marijuana", {<<"M","A","R","I","J","U","A","N","A">>, <<"M","R","J">>,
                       <<"M","J">>}>>,
       <<"cocaine", {<<"C","O","C","A","I","N","E">>, <<"C","O","C">>,
                     <<"C","R","A","C","K">>, <<"C","R","K">>}>>,
       <<"heroin", {<<"H","E","R","O","I","N">>, <<"H","E","R">>}>>,
       <<"hallucinogen", {<<"H","A","L","L","U","C","I","N","O","G","E","N">>,
                          <<"H","A","L">>, <<"L","S","D">>, <<"P","C","P">>}>>,
       <<"alcohol", {<<"A","L","C","O","H","O","L">>, <<"A","L","C">>}>>,
       <<"tobacco", {<<"T","O","B","A","C","C","O">>, <<"C","I","G">>,
                     <<"S","M","O","K","E">>}>>,
       <<"stimulant", {<<"S","T","I","M","U","L","A","N","T">>, <<"S","T","I","M">>,
                       <<"M","E","T","H">>}>>,
       <<"sedative", {<<"S","E","D","A","T","I","V","E">>, <<"S","E","D">>}>>,
       <<"tranquilizer", {<<"T","R","A","N","Q","U","I","L","I","Z","E","R">>,
                          <<"T","R","Q">>}>>,
       <<"painkiller", {<<"P","A","I","N">>, <<"A","N","A","L","G","E","S","I","C">>,
                        <<"A","N","L">>}>>,
       <<"inhalant", {<<"I","N","H","A","L","A","N","T">>, <<"I","N","H">>}>> >>

\* SubstanceFrom without the break: the last pattern found gives the substance.
RECURSIVE SubstanceLastMatch(_, _)
SubstanceLastMatch(text, i) ==
    IF i > Len(substance_patterns) THEN "other"
    ELSE LET later == SubstanceLastMatch(text, i + 1)
         IN  IF later # "other" THEN later
             ELSE IF SearchWord(text, substance_patterns[i][2]) THEN substance_patterns[i][1]
             ELSE "other"

\* The loop over substance_patterns from entry i on: the first pattern found
\* in the text gives the substance, none gives 'other'.
RECURSIVE SubstanceFrom(_, _)
SubstanceFrom(text, i) ==
    IF i > Len(substance_patterns) THEN "other"
    ELSE IF SearchWord(text, substance_patterns[i][2]) THEN substance_patterns[i][1]
    ELSE SubstanceFrom(text, i + 1)

\* re.search(r'\b(PAST\s*(a1|a2|...))\b', s)
SearchPast(s, alts) ==
    \E i \in 1..Len(s) :
        /\ HasAt(s, i, W.PAST)
        /\ BoundaryBefore(s, i)
        /\ \E a \in alts :
              LET j == SkipWs(s, i + 4)
              IN  HasAt(s, j, a) /\ BoundaryAfter(s, j + Len(a))

\* time_patterns tried with the two PAST patterns before LIFETIME|EVER.
TimePeriodPastFirst(text) ==
    IF SearchPast(text, {<<"3","0">>, <<"M","O","N","T","H">>, <<"M","O">>})
    THEN "past_30_days"
    ELSE IF SearchPast(text, {<<"Y","E","A","R">>, <<"1","2">>, <<"Y","R">>})
    THEN "past_year"
    ELSE IF SearchWord(text, {W.LIFETIME, W.EVER}) THEN "lifetime"
    ELSE ""

\* time_patterns, tried in list order; no match gives ''.
TimePeriod(text) ==
    IF SearchWord(text, {W.LIFETIME, W.EVER}) THEN "lifetime"
    ELSE IF SearchPast(text, {<<"3","0">>, <<"M","O","N","T","H">>, <<"M","O">>})
    THEN "past_30_days"
    ELSE IF SearchPast(text, {<<"Y","E","A","R">>, <<"1","2">>, <<"Y","R">>})
    THEN "past_year"
    ELSE ""

\* MeasureType with the AGE/FIRST test before the FLAG/INDICATOR test.
MeasureTypeAgeFirst(text) ==
    IF SearchWord(text, {<<"A","G","E">>, <<"F","I","R","S","T">>})
    THEN "age_first_use"
    ELSE IF SearchWord(text, {<<"F","L","A","G">>, <<"I","N","D","I","C","A","T","O","R">>})
    THEN "use_indicator"
    ELSE IF SearchWord(text, {<<"A","B","U","S","E">>, <<"D","E","P","E","N","D">>})
    THEN "abuse_dependence"
    ELSE "use"

\* The if / elif chain that sets measure.
MeasureType(text) ==
    IF SearchWord(text, {<<"F","L","A","G">>, <<"I","N","D","I","C","A","T","O","R">>})
    THEN "use_indicator"
    ELSE IF SearchWord(text, {<<"A","G","E">>, <<"F","I","R","S","T">>})
    THEN "age_first_use"
    ELSE IF SearchWord(text, {<<"A","B","U","S","E">>, <<"D","E","P","E","N","D">>})
    THEN "abuse_dependence"
    ELSE "use"

\* text = f"{variable_name} {variable_label}".upper()
FeatureText(variable_name, variable_label) ==
    UpperStr(StrOf(variable_name) \o <<" ">> \o StrOf(variable_label))

extract_semantic_features(variable_name, variable_label) ==
    LET text == FeatureText(variable_name, variable_label)
    IN  [substance |-> SubstanceFrom(text, 1),
         time_period |-> TimePeriod(text),
         measure_type |-> MeasureType(text)]

\* The three categorical values are short fixed words; as text they are:
CategoryText(word) ==
    CASE word = "" -> <<>>
      [] word = "other" -> <<"o","t","h","e","r">>
      [] word = "marijuana" -> <<"m","a","r","i","j","u","a","n","a">>
      [] word = "cocaine" -> <<"c","o","c","a","i","n","e">>
      [] word = "heroin" -> <<"h","e","r","o","i","n">>
      [] word = "hallucinogen" -> <<"h","a","l","l","u","c","i","n","o","g","e","n">>
      [] word = "alcohol" -> <<"a","l","c","o","h","o","l">>
      [] word = "tobacco" -> <<"t","o","b","a","c","c","o">>
      [] word = "stimulant" -> <<"s","t","i","m","u","l","a","n","t">>
      [] word = "sedative" -> <<"s","e","d","a","t","i","v","e">>
      [] word = "tranquilizer" -> <<"t","r","a","n","q","u","i","l","i","z","e","r">>
      [] word = "painkiller" -> <<"p","a","i","n","k","i","l","l","e","r">>
      [] word = "inhalant" -> <<"i","n","h","a","l","a","n","t">>
      [] word = "lifetime" -> <<"l","i","f","e","t","i","m","e">>
      [] word = "past_30_days" -> <<"p","a","s","t","_","3","0","_","d","a","y","s">>
      [] word = "past_year" -> <<"p","a","s","t","_","y","e","a","r">>

(***************************************************************************)
(* The values of the inputs                                                *)
(***************************************************************************)

Years == {2002, 2003}

VariableNames == {N.MRJFLAG, N.MARJFLAG}

\* preferred_files of load_concordance_files, in list order.
preferred_files ==
    << <<"C", "o", "n", "c", "a", "t", "P", "U", "F", "C", "o", "m", "p", "a", "r", "a", "b",
         "i", "l", "i", "t", "y", "_", "2", "0", "1", "9", ".", "x", "l", "s", "x">>,
       <<"P", "U", "F", "C", "o", "m", "p", "a", "r", "a", "b", "i", "l", "i", "t", "y", "_",
         "2", "0", "2", "4", ".", "x", "l", "s", "x">> >>

\* The labels and the names the tables of the model hold; clean_label and
\* extract_semantic_features are evaluated once for each of them.
AllNames == VariableNames \cup {N.COCFLAG, N.mrjflag, N.A_B, N.A}
AllLabels == {L.EVER, L.RC, L.COC, L.COC_EVER, NaN, L.C, L.B_C}
CleanLabelOf == [l \in AllLabels |-> clean_label(l)]
FeaturesOf == [n \in AllNames, l \in AllLabels |-> extract_semantic_features(n, l)]

(***************************************************************************)
(* Tables                                                                  *)
(***************************************************************************)

\* Placeholder of a categorical column the table does not have yet.
NoValue == "n/a"

\* A row of the working table.  A column the table does not have (see
\* columns) holds NaN, or NoValue for the three categorical columns.  The
\* value_labels column of the base rows is carried along unread by the
\* build and is left out.
NewRow(year, variable_name, variable_label) ==
    [year |-> year,
     variable_name |-> variable_name,
     variable_label |-> variable_label,
     question_text |-> NaN,
     confirmed_group |-> NaN,
     concordance_file |-> NaN,
     cross_year_confirmed |-> NaN,
     clean_label |-> NaN,
     substance |-> NoValue,
     time_period |-> NoValue,
     measure_type |-> NoValue,
     narrow_key |-> NaN,
     cross_year_narrow |-> NaN]

BaseColumns == {"year", "variable_name", "variable_label"}

\* Series.notna() & (Series != '')
NotEmpty(x) == x # NaN /\ x # <<>>

\* The rows of a table at the positions keep, in table order (boolean
\* indexing: df[mask], df.loc[mask]).
SelectRows(rows, keep) ==
    LET RECURSIVE From(_)
        From(i) ==
            IF i > Len(rows) THEN <<>>
            ELSE (IF i \in keep THEN <<rows[i]>> ELSE <<>>) \o From(i + 1)
    IN  From(1)

(***************************************************************************)
(* Metadata Merger: build_metadata.build_variable_metadata, steps 1 to 3   *)
(***************************************************************************)

\* The loop that fills question_text: a row takes the text the mapping holds
\* for its year and its variable_name, else keeps ''.
QuestionTextOf(row, mapping) ==
    IF \E q \in mapping : q.year = row.year /\ q.variable_name = row.variable_name
    THEN (CHOOSE q \in mapping :
              q.year = row.year /\ q.variable_name = row.variable_name).question_text
    ELSE <<>>

\* df_stata.merge(df_concordance[...], on=['year', 'variable_name'], how='left')
\* for one left row: one output row per matching right row, in the order of
\* the right table; a left row without a match is kept with missing values.
MergeRow(row, right) ==
    LET matches == {i \in DOMAIN right :
                        right[i].year = row.year /\ right[i].variable_name = row.variable_name}
        hits == SelectRows(right, matches)
    IN  IF hits = <<>>
        THEN <<[row EXCEPT !.confirmed_group = NaN, !.concordance_file = NaN]>>
        ELSE [i \in 1..Len(hits) |->
                 [row EXCEPT !.confirmed_group = hits[i].confirmed_group,
                             !.concordance_file = hits[i].concordance_file]]

RECURSIVE MergeLeft(_, _)
MergeLeft(left, right) ==
    IF left = <<>> THEN <<>>
    ELSE MergeRow(left[1], right) \o MergeLeft(Tail(left), right)

\* JoinConcordanceRows without the else branch: the merge whatever the
\* concordance holds.
JoinConcordanceAlwaysMerge(rows, concordance) == MergeLeft(rows, concordance)

\* Step 3: the merge, or the two empty columns when no concordance was loaded.
JoinConcordanceRows(rows, concordance) ==
    IF concordance # <<>>
    THEN MergeLeft(rows, concordance)
    ELSE [i \in DOMAIN rows |->
             [rows[i] EXCEPT !.confirmed_group = <<>>, !.concordance_file = <<>>]]

\* ConfirmedId without the has_concordance mask: the concatenation for
\* every row.
ConfirmedIdUnmasked(row) ==
    StrOf(row.variable_name) \o <<"_">> \o StrOf(row.concordance_file)
        \o <<"_">> \o StrOf(row.confirmed_group)

\* cross_year_confirmed of one row: '' unless has_concordance, then
\* variable_name + '_' + concordance_file + '_' + confirmed_group.
ConfirmedId(row) ==
    IF NotEmpty(row.confirmed_group)
    THEN StrOf(row.variable_name) \o <<"_">> \o StrOf(row.concordance_file)
             \o <<"_">> \o StrOf(row.confirmed_group)
    ELSE <<>>

(***************************************************************************)
(* semantic_matcher.compute_semantic_bridges                               *)
(***************************************************************************)

\* Lines 92-102: clean_label and the three features, row by row.
WithFeatures(row) ==
    LET f == FeaturesOf[row.variable_name, row.variable_label]
    IN  [row EXCEPT !.clean_label = CleanLabelOf[row.variable_label],
                    !.substance = f.substance,
                    !.time_period = f.time_period,
                    !.measure_type = f.measure_type]

\* NarrowKey with the year of the row put into the key.
NarrowKeyWithYear(row) ==
    row.variable_name \o <<"|">> \o IntToStr(row.year) \o <<"|">> \o row.clean_label \o <<"|">>
        \o CategoryText(row.time_period) \o <<"|">> \o CategoryText(row.substance)

\* NarrowKey without the variable_name component.
NarrowKeyWithoutName(row) ==
    row.clean_label \o <<"|">>
        \o CategoryText(row.time_period) \o <<"|">> \o CategoryText(row.substance)

\* NarrowKey without the clean_label component.
NarrowKeyWithoutLabel(row) ==
    row.variable_name \o <<"|">>
        \o CategoryText(row.time_period) \o <<"|">> \o CategoryText(row.substance)

\* Key Builder, lines 106-111:
\* variable_name + '|' + clean_label + '|' + time_period.fillna('') + '|' + substance
NarrowKey(row) ==
    row.variable_name \o <<"|">> \o row.clean_label \o <<"|">>
        \o CategoryText(row.time_period) \o <<"|">> \o CategoryText(row.substance)

\* has_confirmed of expand_keys_with_confirmed, for one row.
HasConfirmed(row) == NotEmpty(row.cross_year_confirmed)

\* Series.unique(): the distinct values in order of first appearance.
RECURSIVE Unique(_)
Unique(values) ==
    IF values = <<>> THEN <<>>
    ELSE LET init == Unique(SubSeq(values, 1, Len(values) - 1))
             last == values[Len(values)]
         IN  IF \E i \in DOMAIN init : init[i] = last THEN init ELSE Append(init, last)

\* The strings of a finite set in ascending str order: the order in which
\* groupby (sort=True) yields its groups.
RECURSIVE SortedStrings(_)
SortedStrings(S) ==
    IF S = {} THEN <<>>
    ELSE LET least == CHOOSE x \in S : \A y \in S \ {x} : StrLess(x, y)
         IN  <<least>> \o SortedStrings(S \ {least})

\* GroupOrder for groupby(sort=False): the ids in the order the rows hold them.
GroupOrderAsFound(rows) ==
    LET confirmed == SelectRows(rows, {j \in DOMAIN rows : HasConfirmed(rows[j])})
    IN  Unique([i \in DOMAIN confirmed |-> confirmed[i].cross_year_confirmed])

\* The ids of the confirmed groups in the order they are processed.
GroupOrder(rows) ==
    SortedStrings({rows[i].cross_year_confirmed : i \in {j \in DOMAIN rows : HasConfirmed(rows[j])}})

\* df.loc[has_confirmed].groupby('cross_year_confirmed')[key_col].unique()
\* for one group: the distinct keys of its members in table order.
GroupKeys(rows, confirmed_id) ==
    LET inGroup == {i \in DOMAIN rows :
                        HasConfirmed(rows[i]) /\ rows[i].cross_year_confirmed = confirmed_id}
        members == SelectRows(rows, inGroup)
    IN  Unique([i \in DOMAIN members |-> members[i].narrow_key])

\* ClaimKeys giving the unclaimed keys of a group the first key of the group
\* in place of the group's id.
ClaimKeysFirstKey(key_to_confirmed, confirmed_id, keys) ==
    LET unclaimed == {keys[i] : i \in DOMAIN keys} \ DOMAIN key_to_confirmed
    IN  key_to_confirmed @@ [k \in unclaimed |-> keys[1]]

\* The inner loop: a key not yet in key_to_confirmed is given this group's id.
RECURSIVE ClaimKeys(_, _, _)
ClaimKeys(key_to_confirmed, confirmed_id, keys) ==
    IF keys = <<>> THEN key_to_confirmed
    ELSE ClaimKeys(IF keys[1] \in DOMAIN key_to_confirmed
                   THEN key_to_confirmed
                   ELSE key_to_confirmed @@ (keys[1] :> confirmed_id),
                   confirmed_id, Tail(keys))

\* The outer loop over the groups, from the i-th group on.
RECURSIVE BuildKeyMap(_, _, _, _)
BuildKeyMap(rows, order, i, key_to_confirmed) ==
    IF i > Len(order) THEN key_to_confirmed
    ELSE BuildKeyMap(rows, order, i + 1,
                     ClaimKeys(key_to_confirmed, order[i], GroupKeys(rows, order[i])))

\* KeyToConfirmed giving every key of a confirmed row the id of the first
\* group processed.
KeyToConfirmedOneGroup(rows) ==
    LET order == GroupOrder(rows)
    IN  [k \in {rows[i].narrow_key : i \in {j \in DOMAIN rows : HasConfirmed(rows[j])}} |->
            order[1]]

\* key_to_confirmed as the two loops leave it.
KeyToConfirmed(rows) == BuildKeyMap(rows, GroupOrder(rows), 1, [k \in {} |-> <<>>])

\* expand_keys_with_confirmed with key_to_confirmed.get(k) in place of
\* key_to_confirmed.get(k, k): a key no group claims is lost.
expand_keys_no_default(rows, cols) ==
    IF "cross_year_confirmed" \notin cols THEN rows
    ELSE IF ~\E i \in DOMAIN rows : HasConfirmed(rows[i]) THEN rows
    ELSE LET key_to_confirmed == KeyToConfirmed(rows)
         IN  [i \in DOMAIN rows |->
                 [rows[i] EXCEPT !.narrow_key =
                     IF @ \in DOMAIN key_to_confirmed THEN key_to_confirmed[@] ELSE NaN]]

\* expand_keys_with_confirmed mapping the keys of the confirmed rows only.
expand_keys_of_confirmed_rows(rows, cols) ==
    IF "cross_year_confirmed" \notin cols THEN rows
    ELSE IF ~\E i \in DOMAIN rows : HasConfirmed(rows[i]) THEN rows
    ELSE LET key_to_confirmed == KeyToConfirmed(rows)
         IN  [i \in DOMAIN rows |->
                 [rows[i] EXCEPT !.narrow_key =
                     IF HasConfirmed(rows[i]) /\ @ \in DOMAIN key_to_confirmed
                     THEN key_to_confirmed[@] ELSE @]]

\* Equivalence Expander, expand_keys_with_confirmed('narrow_key'): returns at
\* once without the column or without a confirmed row; else maps every
\* row's key through key_to_confirmed.get(k, k).
expand_keys_with_confirmed(rows, cols) ==
    IF "cross_year_confirmed" \notin cols THEN rows
    ELSE IF ~\E i \in DOMAIN rows : HasConfirmed(rows[i]) THEN rows
    ELSE LET key_to_confirmed == KeyToConfirmed(rows)
         IN  [i \in DOMAIN rows |->
                 [rows[i] EXCEPT !.narrow_key =
                     IF @ \in DOMAIN key_to_confirmed THEN key_to_confirmed[@] ELSE @]]

\* RowBefore for sort_values(['variable_name', 'year']).
RowBeforeNameFirst(a, b) ==
    \/ StrLess(a.variable_name, b.variable_name)
    \/ a.variable_name = b.variable_name /\ a.year < b.year

\* Order of sort_values(['year', 'variable_name']): a stands before b.
RowBefore(a, b) ==
    \/ a.year < b.year
    \/ a.year = b.year /\ StrLess(a.variable_name, b.variable_name)

\* SortRows without the sort.
SortRowsUnsorted(rows) == rows

\* sort_values(['year', 'variable_name']): a stable sort, by insertion.
RECURSIVE SortRows(_)
SortRows(rows) ==
    IF rows = <<>> THEN <<>>
    ELSE LET init == SortRows(SubSeq(rows, 1, Len(rows) - 1))
             last == rows[Len(rows)]
             n == Cardinality({i \in DOMAIN init : ~RowBefore(last, init[i])})
         IN  SubSeq(init, 1, n) \o <<last>> \o SubSeq(init, n + 1, Len(init))

\* narrow_group_info: groupby('narrow_key', sort=False).first() of the sorted
\* rows gives, for a key, the first sorted row that has it.
Representative(sorted, key) ==
    LET first == CHOOSE i \in DOMAIN sorted :
                     /\ sorted[i].narrow_key = key
                     /\ \A j \in 1..(i - 1) : sorted[j].narrow_key # key
    IN  sorted[first]

\* BridgeId without the year of the representative.
BridgeIdWithoutYear(rep) == rep.variable_name \o <<"_", "n", "a", "r", "r", "o", "w">>

\* f"{variable_name}_narrow_{int(year)}" of a representative.
BridgeId(rep) == rep.variable_name \o W.NARROW \o IntToStr(rep.year)

\* AssignNarrow giving an id to the rows of confirmed groups only.
AssignNarrowConfirmedOnly(rows) ==
    LET sorted == SortRows(rows)
    IN  [i \in DOMAIN rows |->
            [rows[i] EXCEPT !.cross_year_narrow =
                IF HasConfirmed(rows[i])
                THEN BridgeId(Representative(sorted, rows[i].narrow_key))
                ELSE NaN]]

\* Bridge Assigner, lines 131-140.
AssignNarrow(rows) ==
    LET sorted == SortRows(rows)
    IN  [i \in DOMAIN rows |->
            [rows[i] EXCEPT !.cross_year_narrow =
                BridgeId(Representative(sorted, rows[i].narrow_key))]]

\* df.drop(columns=['narrow_key'])
DropNarrowKey(rows) == [i \in DOMAIN rows |-> [rows[i] EXCEPT !.narrow_key = NaN]]

\* compute_semantic_bridges as one function of its argument.
compute_semantic_bridges(rows, cols) ==
    LET featured == [i \in DOMAIN rows |-> WithFeatures(rows[i])]
        keyed == [i \in DOMAIN featured |-> [featured[i] EXCEPT !.narrow_key = NarrowKey(featured[i])]]
        expanded == expand_keys_with_confirmed(keyed, cols)
    IN  DropNarrowKey(AssignNarrow(expanded))

(***************************************************************************)
(* Inputs                                                                  *)
(***************************************************************************)

\* Bounds of the model.
MaxBase == 2
MaxConc == 2
MaxRows == 3
MaxPieces == 3

\* All sequences over S of length at most n.
SeqsUpTo(S, n) == UNION {[1..k -> S] : k \in 0..n}

\* extract_all_stata_metadata: the rows of the years in ascending order of
\* year (one Stata file per year, read in the order of years), a variable
\* name at most once per year.
BaseTables ==
    LET BaseRows ==
            {[year |-> y, variable_name |-> n, variable_label |-> l] :
                y \in Years, n \in VariableNames, l \in {L.EVER, L.COC}}
            \cup {[year |-> y, variable_name |-> N.mrjflag, variable_label |-> L.EVER] : y \in Years}
    IN  {t \in SeqsUpTo(BaseRows, MaxBase) :
            /\ \A i, j \in DOMAIN t : i < j => t[i].year <= t[j].year
            /\ \A i, j \in DOMAIN t :
                  i # j => ~(t[i].year = t[j].year /\ t[i].variable_name = t[j].variable_name)}

\* extract_all_ddi_metadata: {year: {variable_name: question_text}}, written
\* as the set of its entries.
DdiMappings ==
    { {},
      {[year |-> 2002, variable_name |-> N.MRJFLAG, question_text |-> <<"E", "v", "e", "r", "?">>]} }

FileRank(file) == CHOOSE f \in DOMAIN preferred_files : preferred_files[f] = file

\* load_concordance_files: the entries of the files one file after the
\* other, in the order of preferred_files; the concordance code (the cell
\* value of a year column) is "1".
ConcTables ==
    LET ConcRows ==
            {[year |-> y, variable_name |-> n, confirmed_group |-> g, concordance_file |-> preferred_files[f]] :
                y \in Years, n \in VariableNames, g \in {<<"1">>}, f \in DOMAIN preferred_files}
    IN  {t \in SeqsUpTo(ConcRows, MaxConc) :
            \A i, j \in DOMAIN t :
                i < j => FileRank(t[i].concordance_file) <= FileRank(t[j].concordance_file)}

(***************************************************************************)
(* build_variable_metadata as a sequence of steps                          *)
(***************************************************************************)

\* variable_metadata.csv before the build has written it.
NoFile == [written |-> FALSE, rows |-> <<>>]

\* No call of extract_semantic_features on its own is under way.
NoCall == [variable_name |-> <<>>, variable_label |-> <<>>, result |-> <<>>]

\* download_nsduh_data.py has not been run.
NoDownload ==
    [data |-> {}, setup |-> {}, server |-> {}, online |-> FALSE, calls |-> 0,
     year |-> 0, file_type |-> "none", result |-> FALSE, requests |-> 0]

\* Neither extraction loop is running.
NoLoad ==
    [excel_files |-> <<>>, file_at |-> 0, all_concordance |-> <<>>, concordance |-> <<>>,
     archives |-> <<>>, year_at |-> 0, all_metadata |-> <<>>, metadata |-> <<>>]

\* run.py is not running.
NoRun == [started |-> <<>>, results |-> <<>>, status |-> "none", banner |-> FALSE]

InitBuild ==
    /\ pc = "start"
    /\ base \in BaseTables
    /\ ddi \in DdiMappings
    /\ conc \in ConcTables
    /\ df = <<>>
    /\ columns = {}
    /\ input = <<>>
    /\ csv = NoFile
    /\ raw = <<>>
    /\ once = <<>>
    /\ twice = <<>>
    /\ call = NoCall
    /\ run = NoRun
    /\ load = NoLoad
    /\ download = NoDownload

\* LoadBase without the df_stata.empty test of line 38.
LoadBaseUnchecked ==
    /\ pc = "start"
    /\ df' = [i \in DOMAIN base |->
                 NewRow(base[i].year, base[i].variable_name, base[i].variable_label)]
    /\ columns' = BaseColumns
    /\ pc' = "loaded"
    /\ UNCHANGED <<base, ddi, conc, input, csv, raw, once, twice, call, run, load, download>>

\* Step 1, lines 34-42, with base metadata: df_stata is the extracted table.
LoadBase ==
    /\ pc = "start"
    /\ base # <<>>
    /\ df' = [i \in DOMAIN base |->
                 NewRow(base[i].year, base[i].variable_name, base[i].variable_label)]
    /\ columns' = BaseColumns
    /\ pc' = "loaded"
    /\ UNCHANGED <<base, ddi, conc, input, csv, raw, once, twice, call, run, load, download>>

\* Step 1 with an empty extraction, lines 38-40: the function returns.
ExitEmpty ==
    /\ pc = "start"
    /\ base = <<>>
    /\ pc' = "exited"
    /\ UNCHANGED <<base, ddi, conc, df, columns, input, csv, raw, once, twice, call, run, load, download>>

\* Step 2, lines 44-57.
JoinQuestionText ==
    /\ pc = "loaded"
    /\ df' = [i \in DOMAIN df |-> [df[i] EXCEPT !.question_text = QuestionTextOf(df[i], ddi)]]
    /\ columns' = columns \cup {"question_text"}
    /\ pc' = "questions"
    /\ UNCHANGED <<base, ddi, conc, input, csv, raw, once, twice, call, run, load, download>>

\* Step 3, lines 59-74.
JoinConcordance ==
    /\ pc = "questions"
    /\ df' = JoinConcordanceRows(df, conc)
    /\ columns' = columns \cup {"confirmed_group", "concordance_file"}
    /\ pc' = "merged"
    /\ UNCHANGED <<base, ddi, conc, input, csv, raw, once, twice, call, run, load, download>>

\* Lines 76-87: cross_year_confirmed, then the call of compute_semantic_bridges.
DeriveConfirmed ==
    /\ pc = "merged"
    /\ df' = [i \in DOMAIN df |-> [df[i] EXCEPT !.cross_year_confirmed = ConfirmedId(df[i])]]
    /\ columns' = columns \cup {"cross_year_confirmed"}
    /\ input' = df'
    /\ pc' = "bridges"
    /\ UNCHANGED <<base, ddi, conc, csv, raw, once, twice, call, run, load, download>>

\* compute_semantic_bridges, lines 90-102.
ComputeFeatures ==
    /\ pc = "bridges"
    /\ df' = [i \in DOMAIN df |-> WithFeatures(df[i])]
    /\ columns' = columns \cup {"clean_label", "substance", "time_period", "measure_type"}
    /\ pc' = "features"
    /\ UNCHANGED <<base, ddi, conc, input, csv, raw, once, twice, call, run, load, download>>

\* compute_semantic_bridges, lines 104-111.
BuildKeys ==
    /\ pc = "features"
    /\ df' = [i \in DOMAIN df |-> [df[i] EXCEPT !.narrow_key = NarrowKey(df[i])]]
    /\ columns' = columns \cup {"narrow_key"}
    /\ pc' = "keys"
    /\ UNCHANGED <<base, ddi, conc, input, csv, raw, once, twice, call, run, load, download>>

\* compute_semantic_bridges, lines 113-129.
ExpandKeys ==
    /\ pc = "keys"
    /\ df' = expand_keys_with_confirmed(df, columns)
    /\ pc' = "expanded"
    /\ UNCHANGED <<base, ddi, conc, columns, input, csv, raw, once, twice, call, run, load, download>>

\* AssignBridges run straight after the keys are built, before the call of
\* expand_keys_with_confirmed.
AssignBeforeExpand ==
    /\ pc = "keys"
    /\ df' = AssignNarrow(df)
    /\ columns' = columns \cup {"cross_year_narrow"}
    /\ pc' = "assigned"
    /\ UNCHANGED <<base, ddi, conc, input, csv, raw, once, twice, call, run, load, download>>

\* compute_semantic_bridges, lines 131-140.
AssignBridges ==
    /\ pc = "expanded"
    /\ df' = AssignNarrow(df)
    /\ columns' = columns \cup {"cross_year_narrow"}
    /\ pc' = "assigned"
    /\ UNCHANGED <<base, ddi, conc, input, csv, raw, once, twice, call, run, load, download>>

\* compute_semantic_bridges, lines 142-147: the key column is dropped and the
\* table returned.
ReturnBridges ==
    /\ pc = "assigned"
    /\ df' = DropNarrowKey(df)
    /\ columns' = columns \ {"narrow_key"}
    /\ pc' = "returned"
    /\ UNCHANGED <<base, ddi, conc, input, csv, raw, once, twice, call, run, load, download>>

\* Step 5, lines 89-94: the table is written to variable_metadata.csv.
Persist ==
    /\ pc = "returned"
    /\ csv' = [written |-> TRUE, rows |-> df]
    /\ pc' = "saved"
    /\ UNCHANGED <<base, ddi, conc, df, columns, input, raw, once, twice, call, run, load, download>>

Next ==
    \/ LoadBase
    \/ ExitEmpty
    \/ JoinQuestionText
    \/ JoinConcordance
    \/ DeriveConfirmed
    \/ ComputeFeatures
    \/ BuildKeys
    \/ ExpandKeys
    \/ AssignBridges
    \/ ReturnBridges
    \/ Persist

Spec == InitBuild /\ [][Next]_vars

(***************************************************************************)
(* clean_label on its own: applied to a raw label, then to its own result  *)
(***************************************************************************)

\* The concatenation of a sequence of strings.
RECURSIVE Concat(_)
Concat(pieces) == IF pieces = <<>> THEN <<>> ELSE pieces[1] \o Concat(Tail(pieces))

\* A missing label, and every label of at most MaxPieces of the pieces raw
\* labels are put together from.
RawLabels ==
    LET LabelPieces ==
            { W.RC, <<"r", "c", "-">>, W.ADULT, W.YOUTH, <<" ">>, <<"-">>, W.EVER, W.USED,
              W.LIFETIME, <<"L", "S", "D">> }
    IN  {NaN} \cup {Concat(p) : p \in SeqsUpTo(LabelPieces, MaxPieces)}

\* Labels of the form RC- + (ADULT:|YOUTH:) + body + " - EVER USED", as
\* "RC-ADULT: COCAINE - EVER USED": the prefixes, the pieces of the bodies,
\* the suffix.
RCPrefixes == {W.RC, <<"r", "c", "-", " ">>}
AgePrefixes == {W.ADULT \o <<" ">>, <<"y", "o", "u", "t", "h", ":">>}

MaxBody == 2

Bodies ==
    LET BodyPieces == {W.COCAINE, <<" ", "l", "s", "d", " ">>, W.EVER_USED, W.RC, W.ADULT, <<"-">>}
    IN  {Concat(p) : p \in SeqsUpTo(BodyPieces, MaxBody)}

FormLabel(rc, age, body) == rc \o age \o body \o W.SUFFIX

FormLabels == {FormLabel(rc, age, body) : rc \in RCPrefixes, age \in AgePrefixes, body \in Bodies}

\* The raw label: a label of pieces, a label of the form above, or a label
\* with the phrase EVER USED at the start, in the middle or at the end
\* ("EVER USED COCAINE", "COCAINE EVER USED IN LIFETIME",
\* "COCAINE - EVER USED").
InitLabel ==
    /\ pc = "label"
    /\ raw \in RawLabels \cup FormLabels \cup {L.EVER_USED_COC, L.COC_IN_LIFETIME, L.COC_EVER}
    /\ once = NaN
    /\ twice = NaN
    /\ base = <<>>
    /\ ddi = {}
    /\ conc = <<>>
    /\ df = <<>>
    /\ columns = {}
    /\ input = <<>>
    /\ csv = NoFile
    /\ call = NoCall
    /\ run = NoRun
    /\ load = NoLoad
    /\ download = NoDownload

CleanOnce ==
    /\ pc = "label"
    /\ once' = clean_label(raw)
    /\ pc' = "cleaned"
    /\ UNCHANGED <<base, ddi, conc, df, columns, input, csv, raw, twice, call, run, load, download>>

CleanTwice ==
    /\ pc = "cleaned"
    /\ twice' = clean_label(once)
    /\ pc' = "recleaned"
    /\ UNCHANGED <<base, ddi, conc, df, columns, input, csv, raw, once, call, run, load, download>>

NextLabel == CleanOnce \/ CleanTwice

SpecLabel == InitLabel /\ [][NextLabel]_vars

(***************************************************************************)
(* compute_semantic_bridges on its own: called with any table              *)
(***************************************************************************)

YearList == <<2002, 2003>>
NameList == <<N.MARJFLAG, N.MRJFLAG>>
LabelList == <<L.EVER, L.COC>>
ConfirmedList == <<<<>>, G.G2, G.G1>>

\* The candidate rows, numbered from 0.
NumBridgeRows == Len(YearList) * Len(NameList) * Len(LabelList) * Len(ConfirmedList)

BridgeRow(k) ==
    LET y == k % Len(YearList)
        n == (k \div Len(YearList)) % Len(NameList)
        l == (k \div (Len(YearList) * Len(NameList))) % Len(LabelList)
        c == k \div (Len(YearList) * Len(NameList) * Len(LabelList))
    IN  [NewRow(YearList[y + 1], NameList[n + 1], LabelList[l + 1])
            EXCEPT !.cross_year_confirmed = ConfirmedList[c + 1]]

\* The non-decreasing sequences of n numbers in lo..hi: one table for each
\* multiset of rows (the reorderings of a table are the subject of
\* OrderIndependent below).
RECURSIVE NonDecreasing(_, _, _)
NonDecreasing(n, lo, hi) ==
    IF n = 0 THEN {<<>>}
    ELSE UNION {{<<k>> \o t : t \in NonDecreasing(n - 1, k, hi)} : k \in lo..hi}

\* The table of the rows numbered t.
TableOf(t) == [i \in DOMAIN t |-> BridgeRow(t[i])]

\* The same table without the cross_year_confirmed column, as in the test at
\* the end of semantic_matcher.py.
PlainTableOf(t) == [i \in DOMAIN t |-> [BridgeRow(t[i]) EXCEPT !.cross_year_confirmed = NaN]]

\* The rows numbered below NumPlainRows have an empty cross_year_confirmed.
NumPlainRows == Len(YearList) * Len(NameList) * Len(LabelList)

\* test_data of the test at the end of semantic_matcher.py (lines 151-157).
TestRow(year, variable_name, variable_label, confirmed_group) ==
    [NewRow(year, variable_name, variable_label) EXCEPT !.confirmed_group = confirmed_group]

TestTable ==
    << TestRow(2002, N.MRJFLAG, L.EVER, G.MRJ_01),
       TestRow(2003, N.MRJFLAG, L.EVER, G.MRJ_01),
       TestRow(2002, N.COCFLAG, L.COC_EVER, G.COC_01),
       TestRow(2003, N.COCFLAG, L.COC_EVER, G.COC_01) >>

\* A chain of two confirmed groups: G1 holds key1 and key2, G2 holds key2 and
\* key3.  The record of key2 stands in both groups, as a base record with an
\* entry in each concordance file does.
ChainRow(year, variable_name, variable_label, confirmed_id) ==
    [NewRow(year, variable_name, variable_label) EXCEPT !.cross_year_confirmed = confirmed_id]

ChainTable ==
    << ChainRow(2002, N.MRJFLAG, L.EVER, G.G1),
       ChainRow(2003, N.MRJFLAG, L.COC, G.G1),
       ChainRow(2003, N.MRJFLAG, L.COC, G.G2),
       ChainRow(2003, N.MARJFLAG, L.EVER, G.G2) >>

\* A table whose names and labels hold the character "|".
SeparatorTable ==
    << NewRow(2002, N.A_B, L.C),
       NewRow(2002, N.A, L.B_C),
       NewRow(2003, N.MRJFLAG, L.B_C),
       NewRow(2002, N.MRJFLAG, L.C) >>

InitBridges ==
    /\ pc = "bridges"
    /\ \/ \E n \in 1..MaxRows : \E t \in NonDecreasing(n, 0, NumBridgeRows - 1) :
             /\ df = TableOf(t)
             /\ columns = BaseColumns \cup {"cross_year_confirmed"}
       \/ \E n \in 1..MaxRows : \E t \in NonDecreasing(n, 0, NumPlainRows - 1) :
             /\ df = PlainTableOf(t)
             /\ columns = BaseColumns
       \/ /\ df = TestTable
          /\ columns = BaseColumns \cup {"confirmed_group"}
       \/ /\ df = ChainTable
          /\ columns = BaseColumns \cup {"cross_year_confirmed"}
       \/ /\ df = SeparatorTable
          /\ columns = BaseColumns
    /\ input = df
    /\ base = <<>>
    /\ ddi = {}
    /\ conc = <<>>
    /\ csv = NoFile
    /\ raw = <<>>
    /\ once = <<>>
    /\ twice = <<>>
    /\ call = NoCall
    /\ run = NoRun
    /\ load = NoLoad
    /\ download = NoDownload

NextBridges ==
    \/ ComputeFeatures
    \/ BuildKeys
    \/ ExpandKeys
    \/ AssignBridges
    \/ ReturnBridges

SpecBridges == InitBridges /\ [][NextBridges]_vars

(***************************************************************************)
(* extract_semantic_features on its own: called with a name and a label    *)
(***************************************************************************)

\* The words labels are put together from: a word of every substance
\* pattern, the words of the measure rules, and words no rule knows.
FeatureTokens ==
    { <<"M", "A", "R", "I", "J", "U", "A", "N", "A">>,
      <<"m", "r", "j">>,
      <<"C", "O", "C", "A", "I", "N", "E">>,
      <<"H", "E", "R", "O", "I", "N">>,
      <<"L", "S", "D">>,
      <<"A", "L", "C", "O", "H", "O", "L">>,
      <<"S", "M", "O", "K", "E">>,
      <<"M", "E", "T", "H">>,
      <<"S", "E", "D">>,
      <<"T", "R", "Q">>,
      <<"P", "A", "I", "N">>,
      <<"I", "N", "H">>,
      <<"F", "L", "A", "G">>,
      <<"I", "N", "D", "I", "C", "A", "T", "O", "R">>,
      <<"A", "G", "E">>,
      <<"F", "I", "R", "S", "T">>,
      <<"A", "B", "U", "S", "E">>,
      <<"D", "E", "P", "E", "N", "D">>,
      <<"U", "S", "E">>,
      <<"R", "E", "S", "P", "O", "N", "D", "E", "N", "T">>,
      <<"F", "L", "A", "G", "G", "E", "D">>,
      <<"-">> }

\* The phrases of the time patterns, with and without whitespace after PAST,
\* in either case, and words that only begin like one of them.
TimeTokens ==
    { <<"E", "V", "E", "R">>,
      <<"l", "i", "f", "e", "t", "i", "m", "e">>,
      <<"E", "V", "E", "R", "Y">>,
      <<"P", "A", "S", "T", " ", "3", "0">>,
      <<"P", "A", "S", "T", " ", "M", "O", "N", "T", "H">>,
      <<"p", "a", "s", "t", " ", " ", "m", "o">>,
      <<"P", "A", "S", "T", "3", "0">>,
      <<"P", "A", "S", "T", " ", "Y", "E", "A", "R">>,
      <<"P", "A", "S", "T", " ", "1", "2">>,
      <<"P", "A", "S", "T", "Y", "R">>,
      <<"P", "A", "S", "T", " ", "Y", "E", "A", "R", "S">>,
      <<"P", "A", "S", "T">>,
      <<"D", "A", "Y", "S">>,
      <<"U", "S", "E", "D">> }

MaxTokens == 2

\* The words of a sequence joined by single spaces.
RECURSIVE JoinWords(_)
JoinWords(words) ==
    IF words = <<>> THEN <<>>
    ELSE IF Len(words) = 1 THEN words[1]
    ELSE words[1] \o <<" ">> \o JoinWords(Tail(words))

\* A missing label, the labels of at most MaxTokens words, the scenarios.
CallLabels ==
    {NaN, L.AGE_FLAG, L.RESPONDENT, L.THREE, L.EVER, L.ALL_TIMES}
        \cup {JoinWords(w) : w \in SeqsUpTo(FeatureTokens, MaxTokens)}
        \cup {JoinWords(w) : w \in SeqsUpTo(TimeTokens, MaxTokens)}

InitFeatures ==
    /\ pc = "text"
    /\ \E n \in {N.MRJFLAG, N.CRK, N.ID}, l \in CallLabels :
           call = [variable_name |-> n, variable_label |-> l, result |-> <<>>]
    /\ base = <<>>
    /\ ddi = {}
    /\ conc = <<>>
    /\ df = <<>>
    /\ columns = {}
    /\ input = <<>>
    /\ csv = NoFile
    /\ raw = <<>>
    /\ once = <<>>
    /\ twice = <<>>
    /\ run = NoRun
    /\ load = NoLoad
    /\ download = NoDownload

\* extract_semantic_features(variable_name, variable_label), lines 25-77.
ExtractFeatures ==
    /\ pc = "text"
    /\ call' = [call EXCEPT !.result =
                    extract_semantic_features(call.variable_name, call.variable_label)]
    /\ pc' = "extracted"
    /\ UNCHANGED <<base, ddi, conc, df, columns, input, csv, raw, once, twice, run, load, download>>

NextFeatures == ExtractFeatures

SpecFeatures == InitFeatures /\ [][NextFeatures]_vars

(***************************************************************************)
(* run.py: the pipeline runner                                             *)
(***************************************************************************)

\* steps of main, in list order: the scripts.
steps ==
    << "01_download/download_nsduh_data.py",
       "01_download/download_concordance_files.py",
       "02_build_metadata/build_metadata.py",
       "03_build_database/build_database.py",
       "04_analysis/plot_trends.py" >>

\* The step whose script is the metadata build modelled above.
MetadataStep == CHOOSE i \in DOMAIN steps : steps[i] = "02_build_metadata/build_metadata.py"

\* The return value of run_step.
Success(outcome) == outcome = "zero"

\* The loop body of main after run_step returned, ignoring its result.
StatusAfterIgnoringFailure(success) == "running"

\* The loop body of main after run_step returned: sys.exit(1) unless success.
StatusAfter(success) == IF success THEN "running" ELSE "exit 1"

\* main has printed its banner; data/ and concordance/ hold what the build
\* will read if it is run.
InitRun ==
    /\ pc = "idle"
    /\ base \in BaseTables
    /\ ddi \in DdiMappings
    /\ conc \in {t \in ConcTables : Len(t) <= 1}
    /\ df = <<>>
    /\ columns = {}
    /\ input = <<>>
    /\ csv = NoFile
    /\ raw = <<>>
    /\ once = <<>>
    /\ twice = <<>>
    /\ call = NoCall
    /\ run = [started |-> <<>>, results |-> <<>>, status |-> "running", banner |-> FALSE]
    /\ load = NoLoad
    /\ download = NoDownload

\* No step is under way and the loop has a next step.
LoopAtNextStep ==
    /\ run.status = "running"
    /\ Len(run.started) = Len(run.results)
    /\ Len(run.results) < Len(steps)

\* One iteration of the loop of main for a step other than the metadata
\* build: run_step, then the test of its result.  run_step meets one of: the
\* script is not there, the script ends with a non-zero exit code
\* (CalledProcessError), the script ends with exit code 0.
RunStep ==
    /\ LoopAtNextStep
    /\ Len(run.results) + 1 # MetadataStep
    /\ \E outcome \in {"missing", "nonzero", "zero"} :
          run' = [run EXCEPT !.started = Append(@, steps[Len(run.results) + 1]),
                             !.results = Append(@, Success(outcome)),
                             !.status = StatusAfter(Success(outcome))]
    /\ UNCHANGED <<pc, base, ddi, conc, df, columns, input, csv, raw, once, twice, call, load, download>>

\* run_step of the metadata build, lines 17-20: the script is not there.
MetadataScriptMissing ==
    /\ LoopAtNextStep
    /\ Len(run.results) + 1 = MetadataStep
    /\ run' = [run EXCEPT !.started = Append(@, steps[MetadataStep]),
                          !.results = Append(@, Success("missing")),
                          !.status = StatusAfter(Success("missing"))]
    /\ UNCHANGED <<pc, base, ddi, conc, df, columns, input, csv, raw, once, twice, call, load, download>>

\* run_step of the metadata build, lines 22-26: subprocess.run starts
\* build_metadata.py, which calls build_variable_metadata.
StartMetadataStep ==
    /\ LoopAtNextStep
    /\ Len(run.results) + 1 = MetadataStep
    /\ run' = [run EXCEPT !.started = Append(@, steps[MetadataStep])]
    /\ pc' = "start"
    /\ UNCHANGED <<base, ddi, conc, df, columns, input, csv, raw, once, twice, call, load, download>>

\* build_variable_metadata has returned (after the empty extraction or after
\* the table was written): the script ends with exit code 0 and run_step
\* returns True.
FinishMetadataStep ==
    /\ run.status = "running"
    /\ Len(run.started) = MetadataStep
    /\ Len(run.results) = MetadataStep - 1
    /\ pc \in {"exited", "saved"}
    /\ run' = [run EXCEPT !.results = Append(@, Success("zero")),
                          !.status = StatusAfter(Success("zero"))]
    /\ UNCHANGED <<pc, base, ddi, conc, df, columns, input, csv, raw, once, twice, call, load, download>>

\* The build raises before it returns (an unreadable file, a full disk): the
\* script ends with a non-zero exit code, lines 30-32.
MetadataStepRaises ==
    /\ run.status = "running"
    /\ Len(run.started) = MetadataStep
    /\ Len(run.results) = MetadataStep - 1
    /\ pc \notin {"exited", "saved"}
    /\ run' = [run EXCEPT !.results = Append(@, Success("nonzero")),
                          !.status = StatusAfter(Success("nonzero"))]
    /\ pc' = "raised"
    /\ UNCHANGED <<base, ddi, conc, df, columns, input, csv, raw, once, twice, call, load, download>>

\* After the loop, lines 59-61: the success banner.
PrintSuccess ==
    /\ run.status = "running"
    /\ Len(run.results) = Len(steps)
    /\ run' = [run EXCEPT !.banner = TRUE, !.status = "exit 0"]
    /\ UNCHANGED <<pc, base, ddi, conc, df, columns, input, csv, raw, once, twice, call, load, download>>

NextRun ==
    \/ RunStep
    \/ MetadataScriptMissing
    \/ StartMetadataStep
    \/ LoadBase
    \/ ExitEmpty
    \/ JoinQuestionText
    \/ JoinConcordance
    \/ DeriveConfirmed
    \/ ComputeFeatures
    \/ BuildKeys
    \/ ExpandKeys
    \/ AssignBridges
    \/ ReturnBridges
    \/ Persist
    \/ FinishMetadataStep
    \/ MetadataStepRaises
    \/ PrintSuccess

SpecRun == InitRun /\ [][NextRun]_vars

(***************************************************************************)
(* The extraction loops: load_concordance_files and                        *)
(* extract_all_stata_metadata, one input unit after the other              *)
(***************************************************************************)

\* str.isdigit() for the characters of the model.
IsDigits(s) == s # <<>> /\ \A i \in DOMAIN s : IsDigit(s[i])

\* int(s) for a string of digits.
RECURSIVE ToInt(_)
ToInt(s) ==
    IF s = <<>> THEN 0
    ELSE 10 * ToInt(SubSeq(s, 1, Len(s) - 1)) + (Ord(s[Len(s)]) - 48)

\* The positions at which re.search(r"PUF\s*(\d{2})", s, re.IGNORECASE)
\* can match.
PufMatches(s) ==
    {i \in 1..Len(s) :
        /\ HasAt(UpperStr(s), i, C.PUF)
        /\ LET j == SkipWs(s, i + 3)
           IN  j + 1 <= Len(s) /\ IsDigit(s[j]) /\ IsDigit(s[j + 1])}

\* find_year_cols for one column label: the year the column stands for, 0
\* when it is no year column.
YearOfColumn(col) ==
    LET col_str == Strip(col)
    IN  IF IsDigits(col_str)
        THEN IF 1979 <= ToInt(col_str) /\ ToInt(col_str) <= 2024 THEN ToInt(col_str) ELSE 0
        ELSE IF PufMatches(col_str) = {} THEN 0
        ELSE LET i == CHOOSE m \in PufMatches(col_str) : \A n \in PufMatches(col_str) : m <= n
                 j == SkipWs(col_str, i + 3)
                 year == 2000 + ToInt(SubSeq(col_str, j, j + 1))
             IN  IF 1979 <= year /\ year <= 2024 THEN year ELSE 0

\* YearOfColumn, evaluated once for each column label of the sheets.
YearOf ==
    [c \in {C.Variable, C.VARIABLE, C.y2002, C.puf03, C.PUF_02, C.PUF_45, C.y1978, C.Notes, C.Name} |->
        YearOfColumn(c)]

\* Lines 67-71: the position of the first column named VARIABLE, 0 if none.
VariableCol(cols) ==
    LET found == {k \in DOMAIN cols : UpperStr(Strip(cols[k])) = C.VARIABLE}
    IN  IF found = {} THEN 0 ELSE CHOOSE k \in found : \A n \in found : k <= n

\* The positions of the year columns, in column order.
YearCols(cols) == SelectRows([k \in DOMAIN cols |-> k], {k \in DOMAIN cols : YearOf[cols[k]] # 0})

\* Lines 114-134: melt over the year columns (column by column, row by row
\* within a column), the four filters, the clean-up.
MeltColumn(name, cols, rows, vcol, c) ==
    LET keep == {r \in DOMAIN rows :
                    /\ rows[r][vcol] # NaN
                    /\ rows[r][vcol] # <<>>
                    /\ rows[r][c] # NaN
                    /\ rows[r][c] # <<>>}
        kept == SelectRows(rows, keep)
    IN  [r \in DOMAIN kept |->
            [year |-> YearOf[cols[c]],
             variable_name |-> UpperStr(Strip(StrOf(kept[r][vcol]))),
             confirmed_group |-> Strip(StrOf(kept[r][c])),
             concordance_file |-> name]]

RECURSIVE MeltFrom(_, _, _, _, _, _)
MeltFrom(name, cols, rows, vcol, ycols, k) ==
    IF k > Len(ycols) THEN <<>>
    ELSE MeltColumn(name, cols, rows, vcol, ycols[k])
             \o MeltFrom(name, cols, rows, vcol, ycols, k + 1)

\* A file that adds nothing to all_concordance: a continue, or an exception
\* caught at line 139.
Skipped == [appended |-> FALSE, entries |-> <<>>]

\* The body of the loop over excel_files, lines 40-140, for one file.  The
\* fallback of lines 101-106 reads the sheet again with header row 3; melt
\* raises KeyError when the column found as VARIABLE is not in that table.
ReadConcordanceFile(file) ==
    IF ~file.readable THEN Skipped
    ELSE LET vcol == VariableCol(file.columns)
         IN  IF vcol = 0 THEN Skipped
             ELSE LET fallback == YearCols(file.columns) = <<>> /\ file.header_row # 3
                      cols == IF fallback THEN file.columns3 ELSE file.columns
                      rows == IF fallback THEN file.rows3 ELSE file.rows
                      ycols == YearCols(cols)
                      ids == {k \in DOMAIN cols : cols[k] = file.columns[vcol]}
                  IN  IF ycols = <<>> THEN Skipped
                      ELSE IF ids = {} THEN Skipped
                      ELSE [appended |-> TRUE,
                            entries |-> MeltFrom(file.name, cols, rows,
                                                 CHOOSE k \in ids : TRUE, ycols, 1)]

\* The sheets a concordance file can hold.
Sheet ==
     \* A sheet whose reading raises.
    [Unreadable |->
         [readable |-> FALSE, header_row |-> 0, columns |-> <<>>, rows |-> <<>>,
          columns3 |-> <<>>, rows3 |-> <<>>],
     \* A sheet with a VARIABLE column and two year columns in its header row.
     Good |->
         [readable |-> TRUE, header_row |-> 0,
          columns |-> <<C.Variable, C.y2002, C.puf03, C.Notes>>,
          rows |-> << <<X.mrjflag, X.one, NaN, C.Notes>>,
                      <<NaN, X.one, X.one, C.Notes>>,
                      <<N.MARJFLAG, X.blank, X.two, NaN>> >>,
          columns3 |-> <<C.Notes>>, rows3 |-> <<>>],
     \* A sheet whose year columns are found with header row 3 only.
     Fallback |->
         [readable |-> TRUE, header_row |-> 0,
          columns |-> <<C.VARIABLE, C.Notes>>,
          rows |-> << <<C.Notes, C.Notes>>, <<C.VARIABLE, C.PUF_02>>, <<N.COCFLAG, X.one>> >>,
          columns3 |-> <<C.VARIABLE, C.PUF_02>>,
          rows3 |-> << <<N.COCFLAG, X.one>> >>],
     \* A sheet without a VARIABLE column.
     NoVariable |->
         [readable |-> TRUE, header_row |-> 0,
          columns |-> <<C.Name, C.y2002>>,
          rows |-> << <<N.MRJFLAG, X.one>> >>,
          columns3 |-> <<>>, rows3 |-> <<>>],
     \* A sheet with header row 3 and no year column: 1978 and PUF 45 are out of
     \* range.
     NoYears |->
         [readable |-> TRUE, header_row |-> 3,
          columns |-> <<C.VARIABLE, C.Notes, C.y1978, C.PUF_45>>,
          rows |-> << <<N.MRJFLAG, C.Notes, X.one, X.one>> >>,
          columns3 |-> <<C.VARIABLE, C.Notes, C.y1978, C.PUF_45>>,
          rows3 |-> << <<N.MRJFLAG, C.Notes, X.one, X.one>> >>],
     \* A sheet with no year column in either header row.
     NoYearsTwice |->
         [readable |-> TRUE, header_row |-> 0,
          columns |-> <<C.VARIABLE, C.Notes>>,
          rows |-> << <<N.MRJFLAG, C.Notes>> >>,
          columns3 |-> <<C.Name, C.Notes>>,
          rows3 |-> <<>>],
     \* A sheet whose header row 3 has year columns but not the column found as
     \* VARIABLE in the first reading.
     OtherHeader |->
         [readable |-> TRUE, header_row |-> 0,
          columns |-> <<C.Variable, C.Notes>>,
          rows |-> << <<N.MRJFLAG, C.Notes>> >>,
          columns3 |-> <<C.VARIABLE, C.y2002>>,
          rows3 |-> << <<N.MRJFLAG, X.one>> >>]]

Sheets == {Sheet[k] : k \in DOMAIN Sheet}

\* A file of the concordance directory: its name and its sheet.
FileOf(name, sheet) ==
    [name |-> name, readable |-> sheet.readable, header_row |-> sheet.header_row,
     columns |-> sheet.columns, rows |-> sheet.rows,
     columns3 |-> sheet.columns3, rows3 |-> sheet.rows3]

\* Lines 24-28: the preferred files that exist, in the order of
\* preferred_files; the directory holds no other workbook.
ExcelFileLists ==
    { <<>> }
        \cup {<<FileOf(preferred_files[f], s)>> : f \in DOMAIN preferred_files, s \in Sheets}
        \cup {<<FileOf(preferred_files[1], s), FileOf(preferred_files[2], t)>> : s \in Sheets, t \in Sheets}

\* The years extract_all_stata_metadata is called with, a range in
\* ascending order.
ExtractYears == <<2002, 2003>>

\* What the data directory holds for a year: no zip file, a zip file that
\* cannot be read, an archive without a .dta file, or an archive whose .dta
\* file has the variable labels given (name and label, in file order).
Archive ==
    [Missing |-> [zip |-> FALSE, opens |-> FALSE, dta |-> FALSE, variable_labels |-> <<>>],
     Broken |-> [zip |-> TRUE, opens |-> FALSE, dta |-> FALSE, variable_labels |-> <<>>],
     NoDta |-> [zip |-> TRUE, opens |-> TRUE, dta |-> FALSE, variable_labels |-> <<>>],
     One |-> [zip |-> TRUE, opens |-> TRUE, dta |-> TRUE,
              variable_labels |-> << <<N.mrjflag, L.EVER>> >>],
     Two |-> [zip |-> TRUE, opens |-> TRUE, dta |-> TRUE,
              variable_labels |-> << <<N.MRJFLAG, L.EVER>>, <<N.MARJFLAG, L.COC>> >>]]


\* extract_stata_metadata returned None.
None == [found |-> FALSE, rows |-> <<>>]

\* extract_stata_metadata(year), lines 13-82; the value_labels column is
\* left out.
extract_stata_metadata(year, archive) ==
    IF ~archive.zip THEN None
    ELSE IF ~archive.opens THEN None
    ELSE IF ~archive.dta THEN None
    ELSE [found |-> TRUE,
          rows |-> [k \in DOMAIN archive.variable_labels |->
                       [year |-> year,
                        variable_name |-> archive.variable_labels[k][1],
                        variable_label |-> archive.variable_labels[k][2]]]]

\* A function has not returned yet.
NoResult == [returned |-> FALSE, rows |-> <<>>]

InitExtract ==
    /\ pc = "extract"
    /\ \E files \in ExcelFileLists, archives \in [DOMAIN ExtractYears -> {Archive[k] : k \in DOMAIN Archive}] :
           load = [excel_files |-> files, file_at |-> 1, all_concordance |-> <<>>,
                   concordance |-> NoResult,
                   archives |-> archives, year_at |-> 1, all_metadata |-> <<>>,
                   metadata |-> NoResult]
    /\ download = NoDownload
    /\ base = <<>>
    /\ ddi = {}
    /\ conc = <<>>
    /\ df = <<>>
    /\ columns = {}
    /\ input = <<>>
    /\ csv = NoFile
    /\ raw = <<>>
    /\ once = <<>>
    /\ twice = <<>>
    /\ call = NoCall
    /\ run = NoRun

\* LoadFile with a break where the code has continue: a file that is
\* skipped ends the loop.
LoadFileStopAtSkipped ==
    /\ pc = "extract"
    /\ load.file_at \in DOMAIN load.excel_files
    /\ LET read == ReadConcordanceFile(load.excel_files[load.file_at])
       IN  load' = [load EXCEPT
                       !.all_concordance = IF read.appended THEN Append(@, read.entries) ELSE @,
                       !.file_at = IF read.appended THEN @ + 1 ELSE Len(load.excel_files) + 1]
    /\ UNCHANGED <<pc, base, ddi, conc, df, columns, input, csv, raw, once, twice, call, run, download>>

\* One turn of the loop over excel_files, lines 40-140.
LoadFile ==
    /\ pc = "extract"
    /\ load.file_at \in DOMAIN load.excel_files
    /\ LET read == ReadConcordanceFile(load.excel_files[load.file_at])
       IN  load' = [load EXCEPT
                       !.all_concordance = IF read.appended THEN Append(@, read.entries) ELSE @,
                       !.file_at = @ + 1]
    /\ UNCHANGED <<pc, base, ddi, conc, df, columns, input, csv, raw, once, twice, call, run, download>>

\* Lines 34-36 and 142-147: the concatenation of the collected entries, an
\* empty table when nothing was collected.
ReturnConcordance ==
    /\ pc = "extract"
    /\ load.file_at = Len(load.excel_files) + 1
    /\ ~load.concordance.returned
    /\ load' = [load EXCEPT !.concordance =
                    [returned |-> TRUE, rows |-> Concat(load.all_concordance)]]
    /\ UNCHANGED <<pc, base, ddi, conc, df, columns, input, csv, raw, once, twice, call, run, download>>

\* One turn of the loop over years, lines 95-98 of stata_metadata.py.
ExtractYear ==
    /\ pc = "extract"
    /\ load.year_at \in DOMAIN ExtractYears
    /\ LET extracted == extract_stata_metadata(ExtractYears[load.year_at],
                                               load.archives[load.year_at])
       IN  load' = [load EXCEPT
                       !.all_metadata = IF extracted.found THEN Append(@, extracted.rows) ELSE @,
                       !.year_at = @ + 1]
    /\ UNCHANGED <<pc, base, ddi, conc, df, columns, input, csv, raw, once, twice, call, run, download>>

\* Lines 100-103 of stata_metadata.py.
ReturnMetadata ==
    /\ pc = "extract"
    /\ load.year_at = Len(ExtractYears) + 1
    /\ ~load.metadata.returned
    /\ load' = [load EXCEPT !.metadata =
                    [returned |-> TRUE, rows |-> Concat(load.all_metadata)]]
    /\ UNCHANGED <<pc, base, ddi, conc, df, columns, input, csv, raw, once, twice, call, run, download>>

NextExtract ==
    \/ LoadFile
    \/ ReturnConcordance
    \/ ExtractYear
    \/ ReturnMetadata

SpecExtract == InitExtract /\ [][NextExtract]_vars

(***************************************************************************)
(* download_nsduh_data.py: try_download_file                               *)
(***************************************************************************)

\* str.lower()
LowerStr(s) == [i \in DOMAIN s |-> IF IsUpper(s[i]) THEN Ascii[Ord(s[i]) + 32 - 31] ELSE s[i]]

\* prefix = "NHSDA" if year < 2002 else "NSDUH"
Prefix(year) == IF year < 2002 THEN D.NHSDA ELSE D.NSDUH

\* The two spellings of a file name: f"{prefix}-{year}-DS0001-{rest}" and
\* f"{prefix.lower()}-{year}-ds0001-{rest}".
UpperName(year, rest) == Prefix(year) \o <<"-">> \o IntToStr(year) \o D.DS0001 \o rest
LowerName(year, rest) == LowerStr(Prefix(year)) \o <<"-">> \o IntToStr(year) \o D.ds0001 \o rest

\* generate_data_filename_variants(year), lines 22-40.
generate_data_filename_variants(year) ==
    << UpperName(year, D.stata_v4), LowerName(year, D.stata_v4),
       UpperName(year, D.stata_v2), LowerName(year, D.stata_v2),
       UpperName(year, D.stata_v1), LowerName(year, D.stata_v1),
       UpperName(year, D.stata), LowerName(year, D.stata) >>

\* generate_setup_filename_variants(year), lines 42-64.
generate_setup_filename_variants(year) ==
    << UpperName(year, D.ASCII_v4), LowerName(year, D.ASCII_v4),
       UpperName(year, D.ascii_v4), LowerName(year, D.ascii_v4),
       UpperName(year, D.ascii_v2), LowerName(year, D.ascii_v2),
       UpperName(year, D.ascii_v1), LowerName(year, D.ascii_v1),
       UpperName(year, D.ascii), LowerName(year, D.ascii),
       UpperName(year, D.setup_v2), LowerName(year, D.setup_v2),
       UpperName(year, D.setup_v1), LowerName(year, D.setup_v1) >>

\* The name ends with w, and w starts at position from or later.
EndsWithFrom(name, w, from) ==
    /\ Len(name) - Len(w) + 1 >= from
    /\ HasAt(name, Len(name) - Len(w) + 1, w)

\* The name matches the glob pattern f"*{year}*stata.zip" (line 76).
MatchesDataPattern(name, year) ==
    \E i \in 1..Len(name) :
        /\ HasAt(name, i, IntToStr(year))
        /\ EndsWithFrom(name, D.stata_zip, i + Len(IntToStr(year)))

\* The name matches the glob pattern f"*{year}*setup*.zip" (line 80).
MatchesSetupPattern(name, year) ==
    \E i \in 1..Len(name) :
        /\ HasAt(name, i, IntToStr(year))
        /\ \E j \in (i + Len(IntToStr(year)))..Len(name) :
              /\ HasAt(name, j, D.setup)
              /\ EndsWithFrom(name, D.zip, j + Len(D.setup))

FileTypes == {"data", "setup"}

\* A year before 2002 and a year from 2002 on.
DownloadYears == {2001, 2002}

\* Lines 73-80: the variants and the pattern of a file type, evaluated once.
Variants ==
    [y \in DownloadYears, t \in FileTypes |->
        IF t = "data" THEN generate_data_filename_variants(y)
        ELSE generate_setup_filename_variants(y)]
Matches ==
    LET AllVariants ==
            UNION {{Variants[y, t][k] : k \in DOMAIN Variants[y, t]} :
                      y \in DownloadYears, t \in FileTypes}
    IN  [n \in AllVariants, y \in DownloadYears, t \in FileTypes |->
            IF t = "data" THEN MatchesDataPattern(n, y) ELSE MatchesSetupPattern(n, y)]

\* What the server holds: for every year at most one data file and at most
\* one setup file, under one of the variants listed (0: none).
Servers ==
    {UNION {({Variants[y, "data"][k] : k \in {d[y]} \ {0}}
                \cup {Variants[y, "setup"][k] : k \in {s[y]} \ {0}}) : y \in DownloadYears} :
        d \in [DownloadYears -> {0, 1, 5, 7, 8}], s \in [DownloadYears -> {0, 1, 11}]}

MaxCalls == 3

\* Both directories are empty, as after DATA_DIR.mkdir and SETUP_DIR.mkdir
\* in a fresh checkout.
InitDownload ==
    /\ pc = "download"
    /\ \E server \in Servers :
           download = [NoDownload EXCEPT !.server = server]
    /\ load = NoLoad
    /\ base = <<>>
    /\ ddi = {}
    /\ conc = <<>>
    /\ df = <<>>
    /\ columns = {}
    /\ input = <<>>
    /\ csv = NoFile
    /\ raw = <<>>
    /\ once = <<>>
    /\ twice = <<>>
    /\ call = NoCall
    /\ run = NoRun

\* try_download_file(year, file_type), lines 66-117.  When the server cannot
\* be reached every HEAD request raises; else the first variant the server
\* holds is fetched with one GET request.  requests counts the requests the
\* call issued.
TryDownload ==
    /\ pc = "download"
    /\ download.calls < MaxCalls
    /\ \E year \in DownloadYears, file_type \in FileTypes, online \in BOOLEAN :
          LET target_dir == IF file_type = "data" THEN download.data ELSE download.setup
              variants == Variants[year, file_type]
              existing_files == {f \in target_dir : Matches[f, year, file_type]}
              found == {k \in DOMAIN variants : variants[k] \in download.server}
              first == CHOOSE k \in found : \A n \in found : k <= n
              stored == IF existing_files = {} /\ online /\ found # {}
                        THEN {variants[first]} ELSE {}
          IN  download' =
                  [download EXCEPT
                      !.calls = @ + 1,
                      !.online = online,
                      !.year = year,
                      !.file_type = file_type,
                      !.data = IF file_type = "data" THEN @ \cup stored ELSE @,
                      !.setup = IF file_type = "setup" THEN @ \cup stored ELSE @,
                      !.result = existing_files # {} \/ (online /\ found # {}),
                      !.requests = IF existing_files # {} THEN 0
                                   ELSE IF online /\ found # {} THEN first + 1
                                   ELSE Len(variants)]
    /\ UNCHANGED <<pc, base, ddi, conc, df, columns, input, csv, raw, once, twice, call, run, load>>

NextDownload == TryDownload

SpecDownload == InitDownload /\ [][NextDownload]_vars

(***************************************************************************)
(* Properties                                                              *)
(***************************************************************************)

\* C1: after compute_semantic_bridges, any two records with the same
\* non-empty cross_year_confirmed have the same cross_year_narrow.
ConfirmedShareNarrow ==
    pc \in {"assigned", "returned"} =>
        \A i, j \in DOMAIN df :
            (HasConfirmed(df[i]) /\ df[i].cross_year_confirmed = df[j].cross_year_confirmed)
                => df[i].cross_year_narrow = df[j].cross_year_narrow

\* C2: in a full build, two base records of different years, with different
\* names and different cleaned labels, that the concordance puts in the same
\* confirmed_group of the same file, end with the same cross_year_narrow.
ConfirmedGroupCollapses ==
    pc = "saved" =>
        \A i, j \in DOMAIN csv.rows :
            ( /\ csv.rows[i].year # csv.rows[j].year
              /\ csv.rows[i].variable_name # csv.rows[j].variable_name
              /\ csv.rows[i].clean_label # csv.rows[j].clean_label
              /\ NotEmpty(csv.rows[i].confirmed_group)
              /\ csv.rows[i].confirmed_group = csv.rows[j].confirmed_group
              /\ csv.rows[i].concordance_file = csv.rows[j].concordance_file )
                => csv.rows[i].cross_year_narrow = csv.rows[j].cross_year_narrow

\* C3: clean_label is idempotent: cleaning a cleaned label changes nothing.
CleanLabelIdempotent == pc = "recleaned" => twice = once

\* C4: the written table has exactly one row for each (year, variable_name)
\* of the base metadata, and no other row.
OneRowPerBaseRecord ==
    pc = "saved" =>
        /\ Len(csv.rows) = Len(base)
        /\ \A b \in DOMAIN base :
              Cardinality({i \in DOMAIN csv.rows :
                              /\ csv.rows[i].year = base[b].year
                              /\ csv.rows[i].variable_name = base[b].variable_name}) = 1

\* The orders of n rows.
RowOrders(n) == {p \in [1..n -> 1..n] : \A i, j \in 1..n : p[i] = p[j] => i = j}

\* The rows of a table in the order p.
Permute(rows, p) == [i \in DOMAIN rows |-> rows[p[i]]]

\* C5: whatever the order of the rows handed to compute_semantic_bridges,
\* every record gets the cross_year_narrow it got in the run observed.
OrderIndependent ==
    pc = "returned" =>
        \A p \in RowOrders(Len(input)) :
            LET other == compute_semantic_bridges(Permute(input, p), columns)
            IN  \A i \in DOMAIN input :
                    other[i].cross_year_narrow = df[p[i]].cross_year_narrow

\* Three different rows, a confirmed one among them, two in one bridge and the
\* third in another.
OrderIndependentWitness ==
    /\ pc = "returned"
    /\ Len(df) = 3
    /\ df[1] # df[2] /\ df[2] # df[3] /\ df[1] # df[3]
    /\ \E i \in DOMAIN df : HasConfirmed(df[i])
    /\ \E i, j, k \in DOMAIN df :
          /\ i # j
          /\ df[i].cross_year_narrow = df[j].cross_year_narrow
          /\ df[k].cross_year_narrow # df[i].cross_year_narrow

\* C6: expanding the expanded keys once more changes no key.
ExpanderIdempotent ==
    pc = "expanded" => expand_keys_with_confirmed(df, columns) = df

\* The expansion has replaced a key, and a key was observed under two groups.
ExpanderIdempotentWitness ==
    /\ pc = "expanded"
    /\ \E i \in DOMAIN df : df[i].narrow_key # NarrowKey(df[i])
    /\ \E i, j \in DOMAIN df :
          /\ HasConfirmed(df[i]) /\ HasConfirmed(df[j])
          /\ df[i].cross_year_confirmed # df[j].cross_year_confirmed
          /\ NarrowKey(df[i]) = NarrowKey(df[j])

\* C7: every record written has a cross_year_narrow, neither missing nor
\* empty.
EveryRecordHasNarrow ==
    pc = "saved" =>
        /\ csv.written
        /\ "cross_year_narrow" \in columns
        /\ \A i \in DOMAIN csv.rows : NotEmpty(csv.rows[i].cross_year_narrow)

\* A table was written that holds a record with and a record without a
\* confirmed group.
EveryRecordHasNarrowWitness ==
    /\ pc = "saved"
    /\ \E i, j \in DOMAIN csv.rows : HasConfirmed(csv.rows[i]) /\ ~HasConfirmed(csv.rows[j])

\* The rows that share the expanded key of row i.
GroupOf(rows, i) == {j \in DOMAIN rows : rows[j].narrow_key = rows[i].narrow_key}

\* Row m has the smallest year of the members, and among the members of that
\* year the smallest variable_name.
IsEarliest(rows, m, members) ==
    \A j \in members :
        \/ rows[m].year < rows[j].year
        \/ /\ rows[m].year = rows[j].year
           /\ ~StrLess(rows[j].variable_name, rows[m].variable_name)

MRJFLAG_narrow_2002 ==
    <<"M","R","J","F","L","A","G","_","n","a","r","r","o","w","_","2","0","0","2">>

\* C8: the cross_year_narrow of every member of a group is
\* "{variable_name}_narrow_{year}" of the member with the smallest year, ties
\* broken by the smallest variable_name; the two MRJFLAG rows of the test
\* table get MRJFLAG_narrow_2002.
RepresentativeId ==
    pc = "assigned" =>
        /\ \A i \in DOMAIN df :
              \E m \in GroupOf(df, i) :
                  /\ IsEarliest(df, m, GroupOf(df, i))
                  /\ df[i].cross_year_narrow =
                         df[m].variable_name \o W.NARROW \o IntToStr(df[m].year)
        /\ input = TestTable =>
              /\ df[1].cross_year_narrow = MRJFLAG_narrow_2002
              /\ df[2].cross_year_narrow = MRJFLAG_narrow_2002

\* A group with two members of the same, smallest, year and different names,
\* and a third member of a later year.
RepresentativeIdWitness ==
    /\ pc = "assigned"
    /\ \E i, j, k \in DOMAIN df :
          /\ df[i].narrow_key = df[j].narrow_key
          /\ df[i].narrow_key = df[k].narrow_key
          /\ df[i].year = df[j].year
          /\ df[i].variable_name # df[j].variable_name
          /\ df[i].year < df[k].year

\* Row i has no confirmed group and no other row has its narrow_key.
Unmatched(rows, i) ==
    /\ ~HasConfirmed(rows[i])
    /\ \A j \in DOMAIN rows \ {i} : NarrowKey(rows[j]) # NarrowKey(rows[i])

\* C9: a record without a confirmed group whose narrow_key no other record
\* has gets the id made of its own variable_name and its own year.
UnmatchedStaysAlone ==
    pc = "assigned" =>
        \A i \in DOMAIN df :
            Unmatched(df, i) =>
                df[i].cross_year_narrow = df[i].variable_name \o W.NARROW \o IntToStr(df[i].year)

\* An unmatched record of 2003 in a table where two other records of a
\* confirmed group were bridged.
UnmatchedStaysAloneWitness ==
    /\ pc = "assigned"
    /\ \E i, j, k \in DOMAIN df :
          /\ Unmatched(df, i)
          /\ df[i].year = 2003
          /\ j # k
          /\ HasConfirmed(df[j])
          /\ NarrowKey(df[j]) # NarrowKey(df[k])
          /\ df[j].cross_year_narrow = df[k].cross_year_narrow

\* C10: two records with the same variable_name, clean_label, time_period and
\* substance have the same narrow_key before expansion.
KeyFromComponents ==
    pc = "keys" =>
        \A i, j \in DOMAIN df :
            ( /\ df[i].variable_name = df[j].variable_name
              /\ df[i].clean_label = df[j].clean_label
              /\ df[i].time_period = df[j].time_period
              /\ df[i].substance = df[j].substance )
                => df[i].narrow_key = df[j].narrow_key

\* Two rows with the same four components that differ in year, row position,
\* question_text and confirmed_group.
KeyFromComponentsWitness ==
    /\ pc = "keys"
    /\ \E i, j \in DOMAIN df :
          /\ i # j
          /\ df[i].variable_name = df[j].variable_name
          /\ df[i].clean_label = df[j].clean_label
          /\ df[i].time_period = df[j].time_period
          /\ df[i].substance = df[j].substance
          /\ df[i].year # df[j].year
          /\ df[i].question_text # df[j].question_text
          /\ df[i].confirmed_group # df[j].confirmed_group

\* The last position of the run of word characters that holds position i.
RECURSIVE WordEnd(_, _)
WordEnd(text, i) == IF BoundaryAfter(text, i + 1) THEN i ELSE WordEnd(text, i + 1)

\* The whole words of a text: the maximal runs of word characters.
WordsOf(text) ==
    {SubSeq(text, i, WordEnd(text, i)) :
        i \in {k \in 1..Len(text) : IsWordChar(text[k]) /\ BoundaryBefore(text, k)}}

\* The whole words of the upper-cased "name label" text of the call.
CallWords ==
    WordsOf(UpperStr(StrOf(call.variable_name) \o <<" ">> \o StrOf(call.variable_label)))

IndicatorWords == {<<"F", "L", "A", "G">>, <<"I", "N", "D", "I", "C", "A", "T", "O", "R">>}
AgeWords == {<<"A", "G", "E">>, <<"F", "I", "R", "S", "T">>}
AbuseWords == {<<"A", "B", "U", "S", "E">>, <<"D", "E", "P", "E", "N", "D">>}

\* C11: measure_type is use_indicator when the text holds FLAG or INDICATOR,
\* whatever else it holds; else age_first_use when it holds AGE or FIRST; else
\* abuse_dependence when it holds ABUSE or DEPEND; else use.  "AGE FIRST USE
\* FLAG" gives use_indicator.
MeasureByFirstRule ==
    pc = "extracted" =>
        LET w == CallWords
            measure == call.result.measure_type
        IN  /\ (w \cap IndicatorWords # {}) => measure = "use_indicator"
            /\ (w \cap IndicatorWords = {} /\ w \cap AgeWords # {}) => measure = "age_first_use"
            /\ (w \cap IndicatorWords = {} /\ w \cap AgeWords = {} /\ w \cap AbuseWords # {})
                   => measure = "abuse_dependence"
            /\ (w \cap (IndicatorWords \cup AgeWords \cup AbuseWords) = {}) => measure = "use"
            /\ call.variable_label = L.AGE_FLAG => measure = "use_indicator"

\* The features of "AGE FIRST USE FLAG" were extracted: the text holds words
\* of the first and of the second rule.
MeasureByFirstRuleWitness ==
    /\ pc = "extracted"
    /\ call.variable_label = L.AGE_FLAG
    /\ CallWords \cap IndicatorWords # {}
    /\ CallWords \cap AgeWords # {}

\* The substance labels in the order of the pattern list.
SubstanceFamilies ==
    << "marijuana", "cocaine", "heroin", "hallucinogen", "alcohol", "tobacco",
       "stimulant", "sedative", "tranquilizer", "painkiller", "inhalant" >>

\* C20: substance is the label of the first pattern, in the order marijuana,
\* cocaine, heroin, hallucinogen, alcohol, tobacco, stimulant, sedative,
\* tranquilizer, painkiller, inhalant, that has a word among the whole words
\* of the upper-cased "name label" text; "other" when no pattern has one, as
\* for "RESPONDENT ID".
FirstFamilyWins ==
    pc = "extracted" =>
        LET w == CallWords
            hit(i) == substance_patterns[i][2] \cap w # {}
            families == DOMAIN substance_patterns
        IN  /\ [i \in families |-> substance_patterns[i][1]] = SubstanceFamilies
            /\ IF \E i \in families : hit(i)
               THEN \E i \in families :
                        /\ hit(i)
                        /\ \A j \in 1..(i - 1) : ~hit(j)
                        /\ call.result.substance = SubstanceFamilies[i]
               ELSE call.result.substance = "other"
            /\ (call.variable_name = N.ID /\ call.variable_label = L.RESPONDENT)
                  => call.result = [substance |-> "other", time_period |-> "",
                                    measure_type |-> "use"]

\* A text with words of three families, the first of them not the first in
\* the text, got the earliest family of the list.
FirstFamilyWinsWitness ==
    /\ pc = "extracted"
    /\ Cardinality({i \in DOMAIN substance_patterns :
                        substance_patterns[i][2] \cap CallWords # {}}) >= 3
    /\ call.variable_label[1] # "M"
    /\ call.result.substance = "marijuana"

\* C12: clean_label of a label RC- + (ADULT:|YOUTH:) + body + " - EVER USED"
\* is the body alone, upper-cased and trimmed ("RC-ADULT: COCAINE - EVER USED"
\* gives "COCAINE"), and clean_label of a missing label is the empty string.
CleanLabelRuleOrder ==
    pc = "cleaned" =>
        /\ raw = NaN => once = <<>>
        /\ \A rc \in RCPrefixes, age \in AgePrefixes, body \in Bodies :
              raw = FormLabel(rc, age, body) => once = Strip(UpperStr(body))

\* The rows of a written table that have the heuristic key of row i.
HeuristicGroup(rows, i) == {j \in DOMAIN rows : NarrowKey(rows[j]) = NarrowKey(rows[i])}

\* C13: a build without question text writes an empty question_text for every
\* record; a build without concordance rows writes empty confirmed_group,
\* concordance_file and cross_year_confirmed, one row for every base record,
\* and gives every record the id of the earliest record with its heuristic
\* narrow_key.
MissingSourceDegrades ==
    pc = "saved" =>
        /\ ddi = {} =>
              /\ \A i \in DOMAIN csv.rows : csv.rows[i].question_text = <<>>
              /\ \A b \in DOMAIN base : \E i \in DOMAIN csv.rows :
                    /\ csv.rows[i].year = base[b].year
                    /\ csv.rows[i].variable_name = base[b].variable_name
                    /\ NotEmpty(csv.rows[i].cross_year_narrow)
        /\ conc = <<>> =>
              /\ Len(csv.rows) = Len(base)
              /\ \A i \in DOMAIN csv.rows :
                    /\ csv.rows[i].year = base[i].year
                    /\ csv.rows[i].variable_name = base[i].variable_name
                    /\ csv.rows[i].confirmed_group = <<>>
                    /\ csv.rows[i].concordance_file = <<>>
                    /\ csv.rows[i].cross_year_confirmed = <<>>
                    /\ \E m \in HeuristicGroup(csv.rows, i) :
                          /\ IsEarliest(csv.rows, m, HeuristicGroup(csv.rows, i))
                          /\ csv.rows[i].cross_year_narrow =
                                 csv.rows[m].variable_name \o W.NARROW \o IntToStr(csv.rows[m].year)

\* A table of two records bridged by their heuristic key was written with
\* neither question text nor concordance.
MissingSourceDegradesWitness ==
    /\ pc = "saved"
    /\ ddi = {}
    /\ conc = <<>>
    /\ Len(csv.rows) = 2
    /\ csv.rows[1].cross_year_narrow = csv.rows[2].cross_year_narrow

\* C14: when the base extraction yields no rows, the metadata step ends as a
\* failure and the runner starts no later step.
EmptyBaseStopsRun ==
    (base = <<>> /\ Len(run.results) >= MetadataStep) =>
        /\ run.results[MetadataStep] = FALSE
        /\ Len(run.started) = MetadataStep
        /\ run.status = "exit 1"

\* The order of the steps: download data, download concordance, build
\* metadata, build database, plot trends.
StepOrder ==
    << "01_download/download_nsduh_data.py",
       "01_download/download_concordance_files.py",
       "02_build_metadata/build_metadata.py",
       "03_build_database/build_database.py",
       "04_analysis/plot_trends.py" >>

\* C15: the steps are started in the listed order, a step only after the
\* step before it returned success; at the first step that fails the runner
\* exits with status 1 and starts no later step; the success banner is
\* reached only when all five steps succeeded.
StepsInOrder ==
    /\ Len(run.started) <= Len(StepOrder)
    /\ \A i \in DOMAIN run.started : run.started[i] = StepOrder[i]
    /\ Len(run.results) <= Len(run.started)
    /\ Len(run.started) <= Len(run.results) + 1
    /\ \A i \in DOMAIN run.started : \A j \in 1..(i - 1) :
          j \in DOMAIN run.results /\ run.results[j]
    /\ \A i \in DOMAIN run.results :
          ~run.results[i] => (run.status = "exit 1" /\ Len(run.started) = i)
    /\ run.status = "exit 1" =>
          (run.results # <<>> /\ ~run.results[Len(run.results)])
    /\ run.banner =>
          /\ Len(run.results) = 5
          /\ \A i \in DOMAIN run.results : run.results[i]
          /\ run.status = "exit 0"

\* The database build failed after three steps had succeeded: the runner has
\* exited with status 1 before the last step.
StepsInOrderWitness ==
    /\ run.status = "exit 1"
    /\ run.results = <<TRUE, TRUE, TRUE, FALSE>>
    /\ Len(run.started) = 4
    /\ csv.written

\* C16: every variable_name written is in upper case, and a base record is
\* joined to the question text and to the concordance entries of its year
\* whose name equals its name ignoring letter case.
NamesUpperCased ==
    pc = "saved" =>
        \A i \in DOMAIN csv.rows :
            LET row == csv.rows[i]
            IN  /\ row.variable_name = UpperStr(row.variable_name)
                /\ \A q \in ddi :
                      (q.year = row.year /\ q.variable_name = UpperStr(row.variable_name))
                          => row.question_text = q.question_text
                /\ \A c \in DOMAIN conc :
                      (conc[c].year = row.year /\ conc[c].variable_name = UpperStr(row.variable_name))
                          => \E j \in DOMAIN csv.rows :
                                 /\ csv.rows[j].year = row.year
                                 /\ csv.rows[j].variable_name = row.variable_name
                                 /\ csv.rows[j].confirmed_group = conc[c].confirmed_group
                                 /\ csv.rows[j].concordance_file = conc[c].concordance_file

\* The confirmed groups the heuristic key k is observed under.
Holders(rows, k) ==
    {rows[j].cross_year_confirmed :
        j \in {n \in DOMAIN rows : HasConfirmed(rows[n]) /\ NarrowKey(rows[n]) = k}}

\* C17: after expansion the key of a record whose narrow_key is observed under
\* confirmed groups is the id of one of them, the first in ascending order of
\* the ids, wherever the rows of the groups stand in the table.
FirstGroupWins ==
    pc = "expanded" =>
        \A i \in DOMAIN df :
            LET holders == Holders(df, NarrowKey(df[i]))
            IN  holders # {} =>
                    /\ df[i].narrow_key \in holders
                    /\ \A g \in holders \ {df[i].narrow_key} : StrLess(df[i].narrow_key, g)

\* A key is observed under two groups, and the first row that has it is a row
\* of the group that comes second in ascending order.
FirstGroupWinsWitness ==
    /\ pc = "expanded"
    /\ \E i, j \in DOMAIN df :
          /\ i < j
          /\ \A n \in 1..(i - 1) : NarrowKey(df[n]) # NarrowKey(df[i])
          /\ HasConfirmed(df[i]) /\ HasConfirmed(df[j])
          /\ NarrowKey(df[i]) = NarrowKey(df[j])
          /\ StrLess(df[j].cross_year_confirmed, df[i].cross_year_confirmed)
          /\ df[i].narrow_key = df[j].cross_year_confirmed

\* The heuristic keys observed under the confirmed group g.
KeysOf(rows, g) ==
    {NarrowKey(rows[j]) :
        j \in {n \in DOMAIN rows : HasConfirmed(rows[n]) /\ rows[n].cross_year_confirmed = g}}

\* Rows a and b are the ends of a chain: a has key1 of a group A, b has key3
\* of another group B and of no other group, A and B share a key2, and B
\* does not hold key1.
ChainEnds(rows, a, b) ==
    LET key1 == NarrowKey(rows[a])
        key3 == NarrowKey(rows[b])
    IN  /\ key1 # key3
        /\ \E A \in Holders(rows, key1) : \E B \in Holders(rows, key3) :
              /\ A # B
              /\ Holders(rows, key3) = {B}
              /\ B \notin Holders(rows, key1)
              /\ (KeysOf(rows, A) \cap KeysOf(rows, B)) \ {key1, key3} # {}

\* A (year, variable_name) stands for one record of the base metadata: the
\* rows that have it have the same label.
OneLabelPerRecord(rows) ==
    \A i, j \in DOMAIN rows :
        (rows[i].year = rows[j].year /\ rows[i].variable_name = rows[j].variable_name)
            => rows[i].variable_label = rows[j].variable_label

\* C18: when group A holds key1 and key2 and another group B holds key2 and
\* key3 (key3 in no other group), the records with key1 and the records with
\* key3 have different expanded keys, and (a (year, variable_name) standing
\* for one record) different cross_year_narrow ids.
ExpansionNotTransitive ==
    pc = "assigned" =>
        \A a, b \in DOMAIN df :
            ChainEnds(df, a, b) =>
                /\ df[a].narrow_key # df[b].narrow_key
                /\ OneLabelPerRecord(df) => df[a].cross_year_narrow # df[b].cross_year_narrow

\* The chain table was bridged: its first row has key1 and its last row key3,
\* and the row of key2 that stands in group B went to the group of key1.
ExpansionNotTransitiveWitness ==
    /\ pc = "assigned"
    /\ input = ChainTable
    /\ ChainEnds(df, 1, 4)
    /\ OneLabelPerRecord(df)
    /\ df[3].cross_year_confirmed = df[4].cross_year_confirmed
    /\ df[3].cross_year_narrow = df[1].cross_year_narrow

\* C19: after expansion a record without a confirmed group whose narrow_key is
\* observed in a confirmed group has the id of such a group as its key, and
\* every record whose narrow_key is observed in no confirmed group has its
\* heuristic narrow_key.
MappingAppliedToAll ==
    pc = "expanded" =>
        \A i \in DOMAIN df :
            LET holders == Holders(df, NarrowKey(df[i]))
            IN  /\ (~HasConfirmed(df[i]) /\ holders # {}) => df[i].narrow_key \in holders
                /\ holders = {} => df[i].narrow_key = NarrowKey(df[i])

\* A table with a record without a confirmed group that took the id of the
\* group of another record, and a record that kept its heuristic key.
MappingAppliedToAllWitness ==
    /\ pc = "expanded"
    /\ \E i, j, k \in DOMAIN df :
          /\ ~HasConfirmed(df[i])
          /\ HasConfirmed(df[j])
          /\ NarrowKey(df[i]) = NarrowKey(df[j])
          /\ df[i].narrow_key = df[j].cross_year_confirmed
          /\ Holders(df, NarrowKey(df[k])) = {}
          /\ df[k].narrow_key = NarrowKey(df[k])

LifetimeWords == {<<"L", "I", "F", "E", "T", "I", "M", "E">>, <<"E", "V", "E", "R">>}
Past30Words == {<<"3", "0">>, <<"M", "O", "N", "T", "H">>, <<"M", "O">>}
PastYearWords == {<<"Y", "E", "A", "R">>, <<"1", "2">>, <<"Y", "R">>}

\* The text holds PAST at the start of a word, then whitespace or nothing,
\* then one of the words, ending at the end of a word.
PastPhrase(text, words) ==
    \E i \in {k \in 1..Len(text) : text[k] = "P" /\ BoundaryBefore(text, k)} :
        /\ i + 3 <= Len(text)
        /\ SubSeq(text, i, i + 3) = <<"P", "A", "S", "T">>
        /\ \E j \in (i + 4)..Len(text) :
              /\ \A k \in (i + 4)..(j - 1) : text[k] = " "
              /\ \E w \in words :
                    /\ j + Len(w) - 1 <= Len(text)
                    /\ SubSeq(text, j, j + Len(w) - 1) = w
                    /\ BoundaryAfter(text, j + Len(w))

\* The upper-cased "name label" text of the call.
CallText == UpperStr(StrOf(call.variable_name) \o <<" ">> \o StrOf(call.variable_label))

\* C21: time_period is lifetime when the text holds the word LIFETIME or EVER,
\* whatever PAST phrase it also holds; else past_30_days when it holds a
\* PAST 30 / MONTH / MO phrase, also when it holds a PAST YEAR / 12 / YR phrase
\* too; else past_year when it holds such a phrase; else the empty string.
TimeByFirstPattern ==
    pc = "extracted" =>
        LET life == WordsOf(CallText) \cap LifetimeWords # {}
            p30 == PastPhrase(CallText, Past30Words)
            pyr == PastPhrase(CallText, PastYearWords)
            time_period == call.result.time_period
        IN  /\ life => time_period = "lifetime"
            /\ (~life /\ p30) => time_period = "past_30_days"
            /\ (~life /\ ~p30 /\ pyr) => time_period = "past_year"
            /\ (~life /\ ~p30 /\ ~pyr) => time_period = ""

\* The features of "EVER USED PAST 30 DAYS PAST YEAR" were extracted: the text
\* matches all three time patterns and the period is lifetime.
TimeByFirstPatternWitness ==
    /\ pc = "extracted"
    /\ call.variable_label = L.ALL_TIMES
    /\ WordsOf(CallText) \cap LifetimeWords # {}
    /\ PastPhrase(CallText, Past30Words)
    /\ PastPhrase(CallText, PastYearWords)
    /\ call.result.time_period = "lifetime"

\* The positions of s where the pattern \s*-?\s*EVER\s*USED matches up to the
\* end of s.
TrailingEverUsed(s) == {i \in 1..Len(s) : EverUsedAt(s, i) = Len(s) + 1}

\* s without its trailing EVER USED phrase, if it has one.
WithoutTrailingEverUsed(s) ==
    LET at == TrailingEverUsed(s)
    IN  IF at = {} THEN s
        ELSE SubSeq(s, 1, (CHOOSE i \in at : \A j \in at : i <= j) - 1)

\* C22: clean_label removes an EVER USED phrase only at the end of the label
\* and only when the text holds LIFETIME or EVER: the text before the trailing
\* phrase is kept, and an EVER USED phrase elsewhere is kept.
OnlyTrailingEverUsed ==
    (pc = "cleaned" /\ raw # NaN) =>
        LET text == StripAgePrefix(StripRC(Strip(UpperStr(raw))))
        IN  once = Strip(IF Contains(text, W.LIFETIME) \/ Contains(text, W.EVER)
                         THEN WithoutTrailingEverUsed(text)
                         ELSE text)

\* The positions of the build at which cross_year_confirmed has been derived.
AfterDerive == {"bridges", "features", "keys", "expanded", "assigned", "returned", "saved"}

\* C23: cross_year_confirmed of a record is non-empty exactly when its
\* confirmed_group is present and non-empty, and is then variable_name + "_" +
\* concordance_file + "_" + confirmed_group; a record with no concordance
\* entry for its (year, variable_name) has the empty string.
ConfirmedFromConcordance ==
    pc \in AfterDerive =>
        \A i \in DOMAIN df :
            LET row == df[i]
                present == row.confirmed_group # NaN /\ row.confirmed_group # <<>>
            IN  /\ (row.cross_year_confirmed # <<>>) <=> present
                /\ present =>
                      row.cross_year_confirmed =
                          row.variable_name \o <<"_">> \o row.concordance_file
                              \o <<"_">> \o row.confirmed_group
                /\ (~\E k \in DOMAIN conc :
                         conc[k].year = row.year /\ conc[k].variable_name = row.variable_name)
                      => row.cross_year_confirmed = <<>>

\* A table was written in which one record has a concordance entry and its
\* confirmed id, and another has none and the empty string.
ConfirmedFromConcordanceWitness ==
    /\ pc = "saved"
    /\ \E i, j \in DOMAIN csv.rows :
          /\ csv.rows[i].cross_year_confirmed = N.MRJFLAG \o <<"_">> \o preferred_files[1] \o <<"_", "1">>
          /\ csv.rows[j].confirmed_group = NaN
          /\ csv.rows[j].cross_year_confirmed = <<>>

\* The stages of the metadata build in their order.
Stages ==
    << "start", "loaded", "questions", "merged", "bridges", "features", "keys",
       "expanded", "assigned", "returned", "saved" >>

\* C24: the build moves from each stage to the next one of load base, join
\* question text, join concordance, derive cross_year_confirmed, classify,
\* build keys, expand, assign, persist (or stops on an empty base); a step that
\* gives a record its cross_year_narrow starts from a table in which every
\* record has its key, built and expanded; a step that writes the file starts
\* from a table in which every record has its cross_year_narrow.
StagesInOrder ==
    [][ /\ pc' # pc =>
              \/ pc = "start" /\ pc' = "exited"
              \/ \E k \in 1..(Len(Stages) - 1) : pc = Stages[k] /\ pc' = Stages[k + 1]
        /\ (\E i \in DOMAIN df' :
                /\ df'[i].cross_year_narrow # NaN
                /\ i \in DOMAIN df => df[i].cross_year_narrow = NaN)
              => /\ pc = "expanded"
                 /\ \A i \in DOMAIN df : df[i].narrow_key # NaN
                 /\ df = expand_keys_with_confirmed(df, columns)
        /\ csv' # csv
              => /\ pc = "returned"
                 /\ df # <<>>
                 /\ \A i \in DOMAIN df : NotEmpty(df[i].cross_year_narrow)
                 /\ csv'.rows = df
      ]_vars

\* A table of several records, one of them with a confirmed id, was written
\* with a cross_year_narrow for every record.
StagesInOrderWitness ==
    /\ pc = "saved"
    /\ csv.written
    /\ Len(csv.rows) >= 2
    /\ \E i \in DOMAIN csv.rows : HasConfirmed(csv.rows[i])
    /\ \A i \in DOMAIN csv.rows : NotEmpty(csv.rows[i].cross_year_narrow)

\* C25: with an empty base table the build stops straight after the base
\* extraction: it is at its start or has returned, has joined neither question
\* text nor concordance, has classified and bridged nothing, and has written
\* no variable_metadata.csv.
EmptyBaseStopsBuild ==
    base = <<>> =>
        /\ pc \in {"start", "exited"}
        /\ df = <<>>
        /\ columns = {}
        /\ input = <<>>
        /\ csv = NoFile
        /\ ~csv.written

\* The build returned on an empty base although question text and
\* concordance entries were there to be joined.
EmptyBaseStopsBuildWitness ==
    /\ pc = "exited"
    /\ base = <<>>
    /\ ddi # {}
    /\ conc # <<>>
    /\ ~csv.written

\* The sheets that have no VARIABLE column, no year column, or whose reading
\* raises (at the first read, or in melt after the second read).
MalformedSheets ==
    {Sheet.NoVariable, Sheet.NoYears, Sheet.NoYearsTwice, Sheet.Unreadable, Sheet.OtherHeader}

\* The entries of the two well-formed sheets, as they stand in the sheets.
EntriesOfSheet(name, sheet) ==
    IF sheet = Sheet.Good
    THEN << [year |-> 2002, variable_name |-> N.MRJFLAG, confirmed_group |-> X.one,
             concordance_file |-> name],
            [year |-> 2002, variable_name |-> N.MARJFLAG, confirmed_group |-> <<>>,
             concordance_file |-> name],
            [year |-> 2003, variable_name |-> N.MARJFLAG, confirmed_group |-> X.two,
             concordance_file |-> name] >>
    ELSE IF sheet = Sheet.Fallback
    THEN << [year |-> 2002, variable_name |-> N.COCFLAG, confirmed_group |-> X.one,
             concordance_file |-> name] >>
    ELSE <<>>

\* The rows of the .dta file of an archive, if one can be read.
RowsOfArchive(year, archive) ==
    IF archive = Archive.One
    THEN << [year |-> year, variable_name |-> N.mrjflag, variable_label |-> L.EVER] >>
    ELSE IF archive = Archive.Two
    THEN << [year |-> year, variable_name |-> N.MRJFLAG, variable_label |-> L.EVER],
            [year |-> year, variable_name |-> N.MARJFLAG, variable_label |-> L.COC] >>
    ELSE <<>>

\* C26: one unreadable or unrecognized input unit is skipped and the rest is
\* processed.  The table load_concordance_files returns holds, for every
\* file, no row if its sheet has no VARIABLE column, no year column or cannot
\* be read, and else all the entries of the file; the table
\* extract_all_stata_metadata returns holds, for every year, no row if the
\* year has no Stata file or one that cannot be read, and else all the
\* records of the year.
MalformedUnitSkipped ==
    /\ load.concordance.returned =>
          \A f \in DOMAIN load.excel_files :
              LET file == load.excel_files[f]
                  sheet == CHOOSE s \in Sheets : FileOf(file.name, s) = file
                  got == SelectRows(load.concordance.rows,
                                    {k \in DOMAIN load.concordance.rows :
                                         load.concordance.rows[k].concordance_file = file.name})
              IN  IF sheet \in MalformedSheets THEN got = <<>>
                  ELSE got = EntriesOfSheet(file.name, sheet)
    /\ load.metadata.returned =>
          \A y \in DOMAIN ExtractYears :
              LET archive == load.archives[y]
                  got == SelectRows(load.metadata.rows,
                                    {k \in DOMAIN load.metadata.rows :
                                         load.metadata.rows[k].year = ExtractYears[y]})
              IN  IF archive \in {Archive.Missing, Archive.Broken, Archive.NoDta} THEN got = <<>>
                  ELSE got = RowsOfArchive(ExtractYears[y], archive)

\* Both functions returned: the first concordance file was skipped and the
\* entries of the second returned; the archive of the first year could not
\* be read and the records of the second year were returned.
MalformedUnitSkippedWitness ==
    /\ load.concordance.returned
    /\ load.metadata.returned
    /\ Len(load.excel_files) = 2
    /\ load.excel_files[1] = FileOf(preferred_files[1], Sheet.NoVariable)
    /\ load.concordance.rows = EntriesOfSheet(preferred_files[2], Sheet.Good)
    /\ load.archives[1] = Archive.Broken
    /\ load.metadata.rows = RowsOfArchive(2003, Archive.Two)

\* C27: two records that differ in variable_name, clean_label, time_period or
\* substance have different narrow_keys, whatever characters their names and
\* labels hold, the separator "|" included.
DistinctComponentsDistinctKeys ==
    pc = "keys" =>
        \A i, j \in DOMAIN df :
            ( \/ df[i].variable_name # df[j].variable_name
              \/ df[i].clean_label # df[j].clean_label
              \/ df[i].time_period # df[j].time_period
              \/ df[i].substance # df[j].substance )
                => df[i].narrow_key # df[j].narrow_key

\* The string holds the separator of the narrow key.
HasSeparator(s) == \E k \in DOMAIN s : s[k] = "|"

\* C27, amended: two records that differ in time_period or substance have
\* different narrow_keys whatever their names and labels hold; two records
\* that differ in variable_name or clean_label have different narrow_keys
\* when neither variable_name holds the separator "|", whatever their labels
\* hold.
DistinctKeysForPlainNames ==
    pc = "keys" =>
        \A i, j \in DOMAIN df :
            /\ ( \/ df[i].time_period # df[j].time_period
                 \/ df[i].substance # df[j].substance )
                   => df[i].narrow_key # df[j].narrow_key
            /\ ( /\ ~HasSeparator(df[i].variable_name)
                 /\ ~HasSeparator(df[j].variable_name)
                 /\ \/ df[i].variable_name # df[j].variable_name
                    \/ df[i].clean_label # df[j].clean_label )
                   => df[i].narrow_key # df[j].narrow_key

\* The keys were built for two records with the same name without separator
\* and with different labels, one of them with the separator in it.
DistinctKeysForPlainNamesWitness ==
    /\ pc = "keys"
    /\ \E i, j \in DOMAIN df :
          /\ df[i].variable_name = df[j].variable_name
          /\ ~HasSeparator(df[i].variable_name)
          /\ HasSeparator(df[i].clean_label)
          /\ df[i].clean_label # df[j].clean_label
          /\ df[i].narrow_key # df[j].narrow_key

\* The string holds one of the separators "|" and "_".
HasAnySeparator(s) == \E k \in DOMAIN s : s[k] \in {"|", "_"}

\* (year, variable_name) is unique in the table.
UniqueRecords(rows) ==
    \A i, j \in DOMAIN rows :
        (rows[i].year = rows[j].year /\ rows[i].variable_name = rows[j].variable_name) => i = j

\* C28: in a table of the build in which (year, variable_name) is unique and
\* no variable_name, label or group holds "|" or "_", all records that share
\* a cross_year_narrow have the same variable_name.  (The names of the
\* preferred concordance files hold "_"; the property holds with them too.)
BridgeWithinOneName ==
    ( /\ pc \in {"assigned", "returned", "saved"}
      /\ UniqueRecords(df)
      /\ \A i \in DOMAIN df :
            /\ ~HasAnySeparator(df[i].variable_name)
            /\ ~HasAnySeparator(StrOf(df[i].variable_label))
            /\ ~HasAnySeparator(StrOf(df[i].confirmed_group)) )
        => \A i, j \in DOMAIN df :
               df[i].cross_year_narrow = df[j].cross_year_narrow
                   => df[i].variable_name = df[j].variable_name

\* A table was written in which two records of different years, one of them
\* with a confirmed id and the other without, share a cross_year_narrow.
BridgeWithinOneNameWitness ==
    /\ pc = "saved"
    /\ UniqueRecords(df)
    /\ \E i, j \in DOMAIN df :
          /\ df[i].year # df[j].year
          /\ HasConfirmed(df[i])
          /\ ~HasConfirmed(df[j])
          /\ ~HasAnySeparator(df[i].variable_name)
          /\ df[i].cross_year_narrow = df[j].cross_year_narrow
          /\ df[i].variable_name = df[j].variable_name

\* The expanded keys of the rows of a table handed to
\* compute_semantic_bridges, row by row.
ExpandedKeysOf(rows, cols) ==
    LET featured == [i \in DOMAIN rows |-> WithFeatures(rows[i])]
        keyed == [i \in DOMAIN featured |->
                     [featured[i] EXCEPT !.narrow_key = NarrowKey(featured[i])]]
        expanded == expand_keys_with_confirmed(keyed, cols)
    IN  [i \in DOMAIN rows |-> expanded[i].narrow_key]

\* C29: in the table a full build writes, two records whose expanded keys
\* differ have different cross_year_narrow ids, also when the concordance
\* join has made several rows of one base record.
BridgeIdsInjective ==
    pc = "saved" =>
        LET keys == ExpandedKeysOf(input, columns)
        IN  /\ Len(csv.rows) = Len(input)
            /\ \A i, j \in DOMAIN csv.rows :
                   keys[i] # keys[j] => csv.rows[i].cross_year_narrow # csv.rows[j].cross_year_narrow

\* A table was written in which the join made two rows of one base record,
\* one for each concordance file, and a record of the same name in another
\* year has another expanded key and another id.
BridgeIdsInjectiveWitness ==
    /\ pc = "saved"
    /\ \E i, j, k \in DOMAIN csv.rows :
          /\ i # j
          /\ csv.rows[i].year = csv.rows[j].year
          /\ csv.rows[i].variable_name = csv.rows[j].variable_name
          /\ csv.rows[i].concordance_file # csv.rows[j].concordance_file
          /\ HasConfirmed(csv.rows[i])
          /\ HasConfirmed(csv.rows[j])
          /\ csv.rows[k].variable_name = csv.rows[i].variable_name
          /\ csv.rows[k].year # csv.rows[i].year
          /\ ExpandedKeysOf(input, columns)[k] # ExpandedKeysOf(input, columns)[i]
          /\ csv.rows[k].cross_year_narrow # csv.rows[i].cross_year_narrow

\* The files of the target directory of a file type.
TargetDir(file_type) == IF file_type = "data" THEN download.data ELSE download.setup

\* The file names try_download_file can store for a year and a file type.
VariantNames(year, file_type) ==
    {Variants[year, file_type][k] : k \in DOMAIN Variants[year, file_type]}

\* C30: once try_download_file has stored a file for (year, file_type), under
\* whichever of its filename variants, every later call for the same (year,
\* file_type) returns True and issues no network request.  The directories
\* start empty, so a variant found in the target directory was stored by an
\* earlier call.
DownloadIdempotent ==
    [][ \A year \in DownloadYears, file_type \in FileTypes :
            ( /\ download'.calls = download.calls + 1
              /\ download'.year = year
              /\ download'.file_type = file_type
              /\ TargetDir(file_type) \cap VariantNames(year, file_type) # {} )
                => (download'.result /\ download'.requests = 0)
      ]_vars

====
